---- MODULE Spec2Model ----
(***************************************************************************)
(* Model of human-time-to-iso: the /api/parse-date handler                 *)
(* (src/api/parse-date.js), the single-phrase resolver                     *)
(* (src/unnamed/part_000), the two-phrase mock of the handler              *)
(* (src/test.js) and the development server (src/unnamed/part_001),        *)
(* together with the parts of luxon (DateTime, IANAZone) and chrono-node   *)
(* they call.                                                              *)
(*                                                                         *)
(* JavaScript strings are sequences of one-character strings, so that the  *)
(* regular expressions, parseInt, toLowerCase, fromISO and toISO are       *)
(* computed character by character.                                        *)
(* Instants are [sec, ms]: seconds since 1970-01-01T00:00:00Z and the      *)
(* millisecond within the second.                                          *)
(***************************************************************************)
EXTENDS Integers, Sequences, FiniteSets, TLC

----------------------------------------------------------------------------
(* JavaScript values                                                        *)

undefined == [t |-> "undefined"]
null == [t |-> "null"]
NaN == [t |-> "NaN"]
JSNumber(n) == [t |-> "number", v |-> n]
JSString(s) == [t |-> "string", v |-> s]

\* a presence test that lets the empty string through
Falsy_emptyStringPasses(x) ==
    \/ x.t = "undefined"
    \/ x.t = "null"
    \/ x.t = "NaN"
    \/ (x.t = "number" /\ x.v = 0)
    \/ (x.t = "boolean" /\ ~x.v)

\* !x for the values a request field can hold
Falsy(x) ==
    \/ x.t = "undefined"
    \/ x.t = "null"
    \/ x.t = "NaN"
    \/ (x.t = "number" /\ x.v = 0)
    \/ (x.t = "string" /\ x.v = <<>>)
    \/ (x.t = "boolean" /\ ~x.v)

TypeofString(x) == x.t = "string"

IsDigit(c) == c \in {"0", "1", "2", "3", "4", "5", "6", "7", "8", "9"}
DigitVal(c) ==
    CASE c = "0" -> 0 [] c = "1" -> 1 [] c = "2" -> 2 [] c = "3" -> 3
      [] c = "4" -> 4 [] c = "5" -> 5 [] c = "6" -> 6 [] c = "7" -> 7
      [] c = "8" -> 8 [] c = "9" -> 9
DigitChar(n) ==
    CASE n = 0 -> "0" [] n = 1 -> "1" [] n = 2 -> "2" [] n = 3 -> "3"
      [] n = 4 -> "4" [] n = 5 -> "5" [] n = 6 -> "6" [] n = 7 -> "7"
      [] n = 8 -> "8" [] n = 9 -> "9"

\* \s of the regular expressions: WhiteSpace and LineTerminator of
\* ECMAScript; a character that has no escape in a string of this module is
\* written by its code point
IsSpace(c) ==
    \/ c = " " \/ c = "\t" \/ c = "\n" \/ c = "\r" \/ c = "\f"
    \/ c = "U+000B" \/ c = "U+00A0" \/ c = "U+1680" \/ c = "U+2000"
    \/ c = "U+2001" \/ c = "U+2002" \/ c = "U+2003" \/ c = "U+2004"
    \/ c = "U+2005" \/ c = "U+2006" \/ c = "U+2007" \/ c = "U+2008"
    \/ c = "U+2009" \/ c = "U+200A" \/ c = "U+2028" \/ c = "U+2029"
    \/ c = "U+202F" \/ c = "U+205F" \/ c = "U+3000" \/ c = "U+FEFF"

\* the lower-case letter of each capital of U+0041 to U+005A
LowerOf ==
    [A |-> "a", B |-> "b", C |-> "c", D |-> "d", E |-> "e", F |-> "f",
     G |-> "g", H |-> "h", I |-> "i", J |-> "j", K |-> "k", L |-> "l",
     M |-> "m", N |-> "n", O |-> "o", P |-> "p", Q |-> "q", R |-> "r",
     S |-> "s", T |-> "t", U |-> "u", V |-> "v", W |-> "w", X |-> "x",
     Y |-> "y", Z |-> "z"]

\* characters that toLowerCase() leaves as they are: the characters of
\* U+0020 to U+007E that are no capitals, the white space of IsSpace, and
\* "", which At gives for a position outside the string
Caseless ==
    {" ", "!", "\"", "#", "$", "%", "&", "'", "(", ")", "*", "+", ",", "-",
     ".", "/", "0", "1", "2", "3", "4", "5", "6", "7", "8", "9", ":", ";",
     "<", "=", ">", "?", "@", "[", "\\", "]", "^", "_", "a", "b", "c", "d",
     "e", "f", "g", "h", "i", "j", "k", "l", "m", "n", "o", "p", "q", "r",
     "s", "t", "u", "v", "w", "x", "y", "z", "{", "|", "}", "~", "U+0060",
     "\t", "\n", "\r", "\f", "U+000B", "U+00A0", "U+1680", "U+2000",
     "U+2001", "U+2002", "U+2003", "U+2004", "U+2005", "U+2006", "U+2007",
     "U+2008", "U+2009", "U+200A", "U+2028", "U+2029", "U+202F", "U+205F",
     "U+3000", "U+FEFF", ""}

\* String.prototype.toLowerCase() on one character, for the capitals of
\* LowerOf and the characters of Caseless
LowerChar(c) ==
    CASE c \in DOMAIN LowerOf -> LowerOf[c]
      [] c \in Caseless -> c
toLowerCase(s) == [i \in 1..Len(s) |-> LowerChar(s[i])]

\* value of a run of decimal digits
RECURSIVE DigitsVal(_)
DigitsVal(s) ==
    IF s = <<>> THEN 0
    ELSE 10 * DigitsVal(SubSeq(s, 1, Len(s) - 1)) + DigitVal(s[Len(s)])

\* parseInt of a regex capture: a digit run, or undefined for a group that
\* did not take part in the match
parseInt(x) ==
    IF x.t = "undefined" THEN NaN ELSE JSNumber(DigitsVal(x.v))

----------------------------------------------------------------------------
(* Calendar arithmetic (what luxon gets from Date.UTC and the getUTC*       *)
(* accessors)                                                               *)

daysInMonth(y, m) ==
    IF m = 2
      THEN (IF (y % 4 = 0) /\ ((y % 100 # 0) \/ (y % 400 = 0)) THEN 29
            ELSE 28)
    ELSE IF m \in {4, 6, 9, 11} THEN 30 ELSE 31

\* days from 1970-01-01 to the day d of the month with index mp (0 = March)
\* of the year yy that begins in March; linear in d, so that a day past the
\* end of the month lands in the next month as Date.UTC does
DaysFromMarchYear(yy, mp, d) ==
    (yy \div 400) * 146097
        + (yy % 400) * 365 + (yy % 400) \div 4 - (yy % 400) \div 100
        + (153 * mp + 2) \div 5 + d - 1
        - 719468

\* days from 1970-01-01 to y-m-d
DaysFromCivil(y, m, d) ==
    IF m <= 2 THEN DaysFromMarchYear(y - 1, m + 9, d)
    ELSE DaysFromMarchYear(y, m - 3, d)

\* the date of the day with index doy (0 = March 1) in the year y that
\* begins in March
CivilFromYearDay(y, doy, mp) ==
    [year  |-> IF mp < 10 THEN y ELSE y + 1,
     month |-> IF mp < 10 THEN mp + 3 ELSE mp - 9,
     day   |-> doy - (153 * mp + 2) \div 5 + 1]

\* the date of day doe of the 400-year era, of which yoe years have passed
CivilFromEraDay(era, doe, yoe) ==
    CivilFromYearDay(yoe + era * 400,
                     doe - (365 * yoe + yoe \div 4 - yoe \div 100),
                     (5 * (doe - (365 * yoe + yoe \div 4 - yoe \div 100)) + 2)
                         \div 153)

\* the date z days after 1970-01-01
CivilFromDays(z) ==
    CivilFromEraDay((z + 719468) \div 146097,
                    (z + 719468) % 146097,
                    (((z + 719468) % 146097)
                        - ((z + 719468) % 146097) \div 1460
                        + ((z + 719468) % 146097) \div 36524
                        - ((z + 719468) % 146097) \div 146096) \div 365)

\* seconds of the wall-clock fields c read as UTC
objToLocalTS(c) ==
    DaysFromCivil(c.year, c.month, c.day) * 86400
        + c.hour * 3600 + c.minute * 60 + c.second

\* wall-clock fields from a date, the second of the day and the millisecond
objOf(ymd, sod, ms) ==
    [year |-> ymd.year, month |-> ymd.month, day |-> ymd.day,
     hour |-> sod \div 3600, minute |-> (sod % 3600) \div 60,
     second |-> sod % 60, millisecond |-> ms]

\* wall-clock fields of the instant ts at the offset o (minutes)
tsToObj(ts, o) ==
    objOf(CivilFromDays((ts.sec + o * 60) \div 86400),
          (ts.sec + o * 60) % 86400, ts.ms)

----------------------------------------------------------------------------
(* Time zones: the IANA registry as far as the model uses it                *)

Str_America_Chicago ==
    <<"A","m","e","r","i","c","a","/","C","h","i","c","a","g","o">>
Str_Asia_Tokyo == <<"A","s","i","a","/","T","o","k","y","o">>
Str_UTC == <<"U","T","C">>
Str_Nowhere_Fake == <<"N","o","w","h","e","r","e","/","F","a","k","e">>
Str_America_New_York ==
    <<"A","m","e","r","i","c","a","/","N","e","w","_","Y","o","r","k">>
Str_Europe_London == <<"E","u","r","o","p","e","/","L","o","n","d","o","n">>
Str_Etc_UTC == <<"E","t","c","/","U","T","C">>
Str_GMT == <<"G","M","T">>

\* the zone names of the registry that the model knows, in lower case, and
\* the names it knows to be none
KnownZones ==
    {toLowerCase(n) :
       n \in {Str_America_Chicago, Str_America_New_York, Str_Europe_London,
              Str_Asia_Tokyo, Str_UTC, Str_Etc_UTC, Str_GMT}}
NoZones == {Str_Nowhere_Fake}

\* a zone check by shape: anything of the form Area/Location
isValidZone_byShape(name) == \E i \in 1..Len(name) : name[i] = "/"

\* IANAZone.isValidZone: the runtime looks the name up without regard to
\* letter case.  Defined for the names of KnownZones and NoZones
isValidZone(name) ==
    CASE toLowerCase(name) \in KnownZones -> TRUE
      [] name \in NoZones -> FALSE

\* a zone object: an IANA zone by the name it was asked for, or a fixed
\* offset (minutes); "utc" and "gmt" in any letter case normalize to the
\* fixed offset 0
IANAZone(name) == [iana |-> name, off |-> 0]
FixedOffsetZone(o) == [iana |-> <<>>, off |-> o]
InvalidZone == [iana |-> <<"?">>, off |-> 0]
normalizeZone(name) ==
    IF toLowerCase(name) \in {toLowerCase(Str_UTC), toLowerCase(Str_GMT)}
      THEN FixedOffsetZone(0)
    ELSE IF isValidZone(name) THEN IANAZone(name)
    ELSE InvalidZone
zoneIsValid(z) == z # InvalidZone

\* the first Sunday on or after the day number first; the weekday of a day
\* number is (first + 4) % 7, 0 = Sunday
SundayFrom(first) == first + ((7 - ((first + 4) % 7)) % 7)

\* day number of the n-th Sunday of month m in year y
NthSunday(y, m, n) == SundayFrom(DaysFromCivil(y, m, 1)) + 7 * (n - 1)

\* day number of the last Sunday of month m in year y
LastSunday(y, m) == SundayFrom(DaysFromCivil(y, m, daysInMonth(y, m)) - 6)

\* United States rule: the days on which daylight time begins and ends.
\* Since 2007 the second Sunday of March and the first Sunday of November;
\* 1987 to 2006 the first Sunday of April and the last Sunday of October;
\* 1976 to 1986 the last Sunday of April and the last Sunday of October.
\* Defined from 1976 on
USBegin(y) ==
    CASE y >= 2007 -> NthSunday(y, 3, 2)
      [] y >= 1987 /\ y <= 2006 -> NthSunday(y, 4, 1)
      [] y >= 1976 /\ y <= 1986 -> LastSunday(y, 4)
USEnd(y) ==
    CASE y >= 2007 -> NthSunday(y, 11, 1)
      [] y >= 1976 /\ y <= 2006 -> LastSunday(y, 10)

\* United States rule: daylight time from 02:00 standard time of the day it
\* begins to 02:00 daylight time of the day it ends
USOffset(sec, y, std) ==
    IF /\ USBegin(y) * 86400 + 2 * 3600 - std * 60 <= sec
       /\ sec < USEnd(y) * 86400 + 3600 - std * 60
    THEN std + 60 ELSE std

\* European rule, defined from 1996 on: summer time from the last Sunday of
\* March to the last Sunday of October, both at 01:00 UTC
EUOffset(sec, y, std) ==
    CASE y >= 1996 ->
        IF /\ LastSunday(y, 3) * 86400 + 3600 <= sec
           /\ sec < LastSunday(y, 10) * 86400 + 3600
        THEN std + 60 ELSE std

\* the offset of the zone of the lower-case name at the instant sec, off
\* for a fixed offset.  Asia/Tokyo is defined from 1952 on
offsetOf(name, off, sec) ==
    IF name = toLowerCase(Str_America_Chicago)
      THEN USOffset(sec, CivilFromDays(sec \div 86400).year, -360)
    ELSE IF name = toLowerCase(Str_America_New_York)
      THEN USOffset(sec, CivilFromDays(sec \div 86400).year, -300)
    ELSE IF name = toLowerCase(Str_Europe_London)
      THEN EUOffset(sec, CivilFromDays(sec \div 86400).year, 0)
    ELSE IF name = toLowerCase(Str_Asia_Tokyo)
      THEN CASE sec >= DaysFromCivil(1952, 1, 1) * 86400 -> 540
    ELSE off

\* Zone.offset(ts), in minutes
zoneOffset(z, sec) ==
    IF z.iana = <<>> \/ z = InvalidZone THEN z.off
    ELSE offsetOf(toLowerCase(z.iana), z.off, sec)

----------------------------------------------------------------------------
(* luxon DateTime                                                           *)

MkTs(sec, ms) == [sec |-> sec, ms |-> ms]
InvalidDateTime ==
    [valid |-> FALSE, ts |-> MkTs(0, 0), zone |-> InvalidZone, o |-> 0]
MkDateTime(ts, z, o) == [valid |-> TRUE, ts |-> ts, zone |-> z, o |-> o]

\* the calendar fields of a valid DateTime (inst.c)
Fields(d) == tsToObj(d.ts, d.o)

\* the last step of fixOffset: the second guess is right, or the wall-clock
\* time is inside a spring-forward gap and moves forward by its width
fixOffsetHole(localSec, guess2, o2, o3) ==
    IF o2 = o3 THEN [sec |-> guess2, o |-> o2]
    ELSE [sec |-> localSec - (IF o2 < o3 THEN o2 ELSE o3) * 60,
          o |-> IF o2 < o3 THEN o3 ELSE o2]

\* the second step of fixOffset: the first guess is right, or the guess moves
\* by the difference of the offsets
fixOffsetGuess(localSec, o, z, guess1, o2) ==
    IF o = o2 THEN [sec |-> guess1, o |-> o]
    ELSE fixOffsetHole(localSec, guess1 - (o2 - o) * 60, o2,
                       zoneOffset(z, guess1 - (o2 - o) * 60))

\* luxon fixOffset: the instant whose wall clock in zone z reads localSec,
\* starting from the guessed offset o
fixOffset(localSec, o, z) ==
    fixOffsetGuess(localSec, o, z, localSec - o * 60,
                   zoneOffset(z, localSec - o * 60))

\* hasInvalidGregorianData / hasInvalidTimeData
validFields(c) ==
    /\ c.month \in 1..12
    /\ c.day >= 1 /\ c.day <= daysInMonth(c.year, c.month)
    /\ \/ c.hour \in 0..23
       \/ (c.hour = 24 /\ c.minute = 0 /\ c.second = 0 /\ c.millisecond = 0)
    /\ c.minute \in 0..59
    /\ c.second \in 0..59

\* the DateTime of the wall-clock fields c in zone z, once the instant r is
\* known
dateTimeAt(c, z, r) ==
    IF ~validFields(c) THEN [t |-> "ok", dt |-> InvalidDateTime]
    ELSE [t |-> "ok", dt |-> MkDateTime(MkTs(r.sec, c.millisecond), z, r.o)]

\* fromObject for numeric fields c
fromFields(c, z, serverNow) ==
    dateTimeAt(c, z, fixOffset(objToLocalTS(c), zoneOffset(z, serverNow), z))

\* DateTime.fromObject(obj, { zone }) for an obj of JavaScript numbers: an
\* unsupported zone gives an invalid DateTime, a NaN unit throws
\* (normalizeObject / asNumber), out-of-range units give an invalid DateTime;
\* the provisional offset is the zone's offset at the server's current time
\* (Settings.now())
fromObjectZ(obj, z, serverNow) ==
    IF ~zoneIsValid(z) THEN [t |-> "ok", dt |-> InvalidDateTime]
    ELSE IF \E f \in DOMAIN obj : obj[f].t = "NaN"
        THEN [t |-> "throw", dt |-> InvalidDateTime]
    ELSE fromFields([year |-> obj.year.v, month |-> obj.month.v,
                     day |-> obj.day.v, hour |-> obj.hour.v,
                     minute |-> obj.minute.v, second |-> obj.second.v,
                     millisecond |-> 0], z, serverNow)

fromObject(obj, zoneName, serverNow) ==
    fromObjectZ(obj, normalizeZone(zoneName), serverNow)

\* setZone with keepLocalTime: the wall-clock fields of d read as local time
\* of zone z
inZone_keepLocalTime(d, z) ==
    MkDateTime(MkTs(fixOffset(objToLocalTS(Fields(d)), d.o, z).sec, d.ts.ms),
               z, fixOffset(objToLocalTS(Fields(d)), d.o, z).o)

\* a valid DateTime moved to the valid zone z
inZone(d, z) == MkDateTime(d.ts, z, zoneOffset(z, d.ts.sec))

\* setZone once the zone name is normalized
setZoneZ(d, z) ==
    IF d.zone = z THEN d
    ELSE IF ~zoneIsValid(z) THEN InvalidDateTime
    ELSE IF ~d.valid THEN InvalidDateTime
    ELSE inZone(d, z)

\* dt.setZone(zoneName)
setZone(d, zoneName) == setZoneZ(d, normalizeZone(zoneName))

\* the DateTime at the instant r, with the zone and the milliseconds of d
movedTo(d, r) == MkDateTime(MkTs(r.sec, d.ts.ms), d.zone, r.o)

\* the wall-clock fields c with the day advanced by one
nextDay(c) == [c EXCEPT !.day = c.day + 1]

\* dt.plus({ days: 1 }): the same wall-clock fields on the next calendar day,
\* resolved from the current offset (adjustTime)
plusOneDay(d) ==
    IF ~d.valid THEN d
    ELSE movedTo(d, fixOffset(objToLocalTS(nextDay(Fields(d))), d.o, d.zone))

\* a < b on DateTimes: valueOf() is NaN for an invalid one
LessThan(a, b) ==
    /\ a.valid /\ b.valid
    /\ \/ a.ts.sec < b.ts.sec
       \/ (a.ts.sec = b.ts.sec /\ a.ts.ms < b.ts.ms)

\* dt.toJSDate(): the bare instant, without the zone
toJSDate(d) ==
    IF d.valid THEN [valid |-> TRUE, ts |-> d.ts]
    ELSE [valid |-> FALSE, ts |-> MkTs(0, 0)]

----------------------------------------------------------------------------
(* ISO 8601 text                                                            *)

\* the character at position i, "" outside the string
At(s, i) == IF i >= 1 /\ i <= Len(s) THEN s[i] ELSE ""

DigitsAt(s, i, n) == \A q \in i..(i + n - 1) : IsDigit(At(s, q))
NumAt(s, i, n) == DigitsVal(SubSeq(s, i, i + n - 1))

\* the ISO forms the model reads:
\*   YYYY-MM-DD [ T HH:MM [ :SS [ .fff ] ] ] [ Z | +HH:MM | -HH:MM ]
isoDateOK(s) ==
    /\ DigitsAt(s, 1, 4) /\ At(s, 5) = "-"
    /\ DigitsAt(s, 6, 2) /\ At(s, 8) = "-"
    /\ DigitsAt(s, 9, 2)
isoHasTime(s) == At(s, 11) = "T"
isoTimeOK(s) == DigitsAt(s, 12, 2) /\ At(s, 14) = ":" /\ DigitsAt(s, 15, 2)
isoHasSec(s) == isoHasTime(s) /\ At(s, 17) = ":" /\ DigitsAt(s, 18, 2)
isoHasMs(s) == isoHasSec(s) /\ At(s, 20) = "." /\ DigitsAt(s, 21, 3)

\* where the offset part begins
isoZonePos(s) ==
    IF ~isoHasTime(s) THEN 11
    ELSE IF ~isoHasSec(s) THEN 17
    ELSE IF ~isoHasMs(s) THEN 20 ELSE 24

\* the offset part at position p: "none", "Z", "offset", or "bad" text
isoZoneKind(s, p) ==
    IF p = Len(s) + 1 THEN "none"
    ELSE IF isoHasTime(s) /\ At(s, p) = "Z" /\ Len(s) = p THEN "Z"
    ELSE IF /\ isoHasTime(s) /\ At(s, p) \in {"+", "-"}
            /\ DigitsAt(s, p + 1, 2) /\ At(s, p + 3) = ":"
            /\ DigitsAt(s, p + 4, 2) /\ Len(s) = p + 5
         THEN "offset"
    ELSE "bad"

isoFields(s) ==
    [year |-> NumAt(s, 1, 4), month |-> NumAt(s, 6, 2),
     day |-> NumAt(s, 9, 2),
     hour |-> IF isoHasTime(s) THEN NumAt(s, 12, 2) ELSE 0,
     minute |-> IF isoHasTime(s) THEN NumAt(s, 15, 2) ELSE 0,
     second |-> IF isoHasSec(s) THEN NumAt(s, 18, 2) ELSE 0,
     millisecond |-> IF isoHasMs(s) THEN NumAt(s, 21, 3) ELSE 0]

\* the offset in minutes of the +HH:MM / -HH:MM at position p
isoOffset(s, p) ==
    (IF At(s, p) = "-" THEN -1 ELSE 1)
        * (NumAt(s, p + 1, 2) * 60 + NumAt(s, p + 4, 2))

parseISOZone(s, p, zKind) ==
    IF ~(isoDateOK(s) /\ (isoHasTime(s) => isoTimeOK(s)) /\ zKind # "bad")
    THEN [ok |-> FALSE]
    ELSE [ok |-> TRUE, c |-> isoFields(s), zKind |-> zKind,
          zMin |-> IF zKind = "offset" THEN isoOffset(s, p) ELSE 0]

\* the pieces of an ISO text: ok, the calendar fields, and the offset part
parseISOAt(s, p) == parseISOZone(s, p, isoZoneKind(s, p))

\* the DateTime of parsed fields c read in zone z, once the instant f is known
isoDateTime(c, z, f) == MkDateTime(MkTs(f.sec, c.millisecond), z, f.o)

\* the DateTime of parsed fields c read in zone z
isoInZone(c, z, serverNow) ==
    IF ~validFields(c) THEN InvalidDateTime
    ELSE isoDateTime(c, z,
                     fixOffset(objToLocalTS(c), zoneOffset(z, serverNow), z))

\* the DateTime of the parsed text r
fromParsed(r, serverZone, serverNow) ==
    IF ~r.ok THEN InvalidDateTime
    ELSE isoInZone(r.c,
                   IF r.zKind = "none" THEN serverZone
                   ELSE FixedOffsetZone(r.zMin),
                   serverNow)

\* DateTime.fromISO(s, { setZone: true }): text with "Z" or an offset is read
\* at that offset and keeps it as its zone; text without either is read as
\* wall-clock time of the process's default (server-local) zone
fromISO(s, serverZone, serverNow) ==
    fromParsed(parseISOAt(s, isoZonePos(s)), serverZone, serverNow)

Pad2(n) == <<DigitChar(n \div 10), DigitChar(n % 10)>>
Pad3(n) == <<DigitChar(n \div 100)>> \o Pad2(n % 100)
Pad4(n) == Pad2(n \div 100) \o Pad2(n % 100)

\* +HH:MM / -HH:MM for an offset whose absolute value is abs minutes
isoOffsetText(negative, abs) ==
    <<IF negative THEN "-" ELSE "+">>
        \o Pad2(abs \div 60) \o <<":">> \o Pad2(abs % 60)

\* the text of the wall-clock fields c followed by the offset text
isoText(c, off) ==
    Pad4(c.year) \o <<"-">> \o Pad2(c.month) \o <<"-">> \o Pad2(c.day)
        \o <<"T">> \o Pad2(c.hour) \o <<":">> \o Pad2(c.minute)
        \o <<":">> \o Pad2(c.second)
        \o (IF c.millisecond = 0 THEN <<>> ELSE <<".">> \o Pad3(c.millisecond))
        \o off

\* dt.toISO rendering the wall-clock fields with "Z" whatever the offset is
toISO_wallClockZ(d) ==
    IF ~d.valid THEN null ELSE JSString(isoText(Fields(d), <<"Z">>))

\* dt.toISO({ suppressMilliseconds: true }): null for an invalid DateTime;
\* the milliseconds are left out only when they are 0; the offset is "Z" for
\* the fixed offset 0 and +HH:MM / -HH:MM otherwise
toISO(d) ==
    IF ~d.valid THEN null
    ELSE JSString(isoText(Fields(d),
                          IF d.zone.iana = <<>> /\ d.zone.off = 0 THEN <<"Z">>
                          ELSE isoOffsetText(d.o < 0,
                                             IF d.o < 0 THEN -d.o ELSE d.o)))

----------------------------------------------------------------------------
(* The time-of-day parser (src/api/parse-date.js:138-168)                   *)

RECURSIVE SkipSpaces(_, _)
SkipSpaces(s, k) ==
    IF IsSpace(At(s, k)) THEN SkipSpaces(s, k + 1) ELSE k

\* one way of matching /(\d{1,2})(?::(\d{2}))?\s*(am|pm)/i at position i:
\* hl hour digits, with or without the :MM group
Alt12OK(s, i, hl, mm) ==
    /\ DigitsAt(s, i, hl)
    /\ mm => (At(s, i + hl) = ":" /\ DigitsAt(s, i + hl + 1, 2))
    /\ LET k == SkipSpaces(s, i + hl + (IF mm THEN 3 ELSE 0))
       IN /\ LowerChar(At(s, k)) \in {"a", "p"}
          /\ LowerChar(At(s, k + 1)) = "m"

\* the alternatives in the order the backtracking matcher tries them
\* (both quantifiers are greedy)
Alts12 == << <<2, TRUE>>, <<2, FALSE>>, <<1, TRUE>>, <<1, FALSE>> >>

NoMatch == [found |-> FALSE, g1 |-> undefined, g2 |-> undefined,
            g3 |-> undefined]

\* the alternatives that match at position i
altsAt(s, i) == {a \in 1..4 : Alt12OK(s, i, Alts12[a][1], Alts12[a][2])}

\* the least element of a non-empty set of numbers
Least(S) == CHOOSE x \in S : \A y \in S : x <= y

\* the captures of a match at position i with hl hour digits, with (mm) or
\* without the :MM group, and the suffix at position k
captures(s, i, hl, mm, k) ==
    [found |-> TRUE,
     g1 |-> JSString(SubSeq(s, i, i + hl - 1)),
     g2 |-> IF mm THEN JSString(SubSeq(s, i + hl + 1, i + hl + 2))
            ELSE undefined,
     g3 |-> IF k = 0 THEN undefined ELSE JSString(SubSeq(s, k, k + 1))]

timeMatchAlt(s, i, hl, mm) ==
    captures(s, i, hl, mm, SkipSpaces(s, i + hl + (IF mm THEN 3 ELSE 0)))

\* the match at position i: the first alternative that matches there
timeMatchAt(s, i, a) == timeMatchAlt(s, i, Alts12[a][1], Alts12[a][2])

timeMatchFrom(s, i) == timeMatchAt(s, i, Least(altsAt(s, i)))

timeMatchIn(s, starts) ==
    IF starts = {} THEN NoMatch ELSE timeMatchFrom(s, Least(starts))

\* humanTime.match(/(\d{1,2})(?::(\d{2}))?\s*(am|pm)/i): the leftmost
\* position with a match, and there the first alternative that matches
timeMatchOf(s) == timeMatchIn(s, {i \in 1..Len(s) : altsAt(s, i) # {}})

time24MatchAt(s, i, hl) ==
    captures(s, i, hl, At(s, i + hl) = ":" /\ DigitsAt(s, i + hl + 1, 2), 0)

time24MatchFrom(s, i) ==
    time24MatchAt(s, i, IF IsDigit(At(s, i + 1)) THEN 2 ELSE 1)

time24MatchIn(s, starts) ==
    IF starts = {} THEN NoMatch ELSE time24MatchFrom(s, Least(starts))

\* humanTime.match(/(\d{1,2})(?::(\d{2}))?/): the leftmost digit, a second
\* digit if there is one, then :MM if it follows
time24MatchOf(s) == time24MatchIn(s, {i \in 1..Len(s) : IsDigit(s[i])})

\* to24 without the exception for 12pm
to24_pmAlwaysAdds(h, suffix) ==
    IF suffix = <<"p", "m">> THEN JSNumber(h.v + 12)
    ELSE IF suffix = <<"a", "m">> /\ h.v = 12 THEN JSNumber(0)
    ELSE h

\* the 12-hour conversion of hour h for the lower-case suffix
to24(h, suffix) ==
    IF suffix = <<"p", "m">> /\ h.v # 12 THEN JSNumber(h.v + 12)
    ELSE IF suffix = <<"a", "m">> /\ h.v = 12 THEN JSNumber(0)
    ELSE h

\* the 12-hour branch: hour and minute from the captures, then the
\* conversion to 24 hours
convert12(timeMatch) ==
    [hour |-> to24(parseInt(timeMatch.g1), toLowerCase(timeMatch.g3.v)),
     minute |-> IF ~Falsy(timeMatch.g2) THEN parseInt(timeMatch.g2)
                ELSE JSNumber(0)]

\* a parsed time: hour and minute as found, second 0 (lines 139-141)
TimeOK(r) ==
    [ok |-> TRUE, hour |-> r.hour, minute |-> r.minute,
     second |-> JSNumber(0)]

\* no pattern matches and the handler goes on with the initial 0:00:00
noTimeMatch_fallsThrough ==
    TimeOK([hour |-> JSNumber(0), minute |-> JSNumber(0)])

\* lines 162-167: neither pattern matches, "Could not parse the time"
noTimeMatch ==
    [ok |-> FALSE, hour |-> JSNumber(0), minute |-> JSNumber(0),
     second |-> JSNumber(0)]

\* lines 156-167, the else branch of the 12-hour match: both captures of the
\* 24-hour pattern go through parseInt
parseTime24(time24Match) ==
    IF time24Match.found
      THEN TimeOK([hour |-> parseInt(time24Match.g1),
                   minute |-> parseInt(time24Match.g2)])
    ELSE noTimeMatch

\* the 24-hour pattern tried before the 12-hour pattern
parseTime12_24first(humanTime, timeMatch) ==
    IF time24MatchOf(humanTime).found
      THEN parseTime24(time24MatchOf(humanTime))
    ELSE IF timeMatch.found THEN TimeOK(convert12(timeMatch))
    ELSE noTimeMatch

\* lines 144-158: the 12-hour pattern first, the 24-hour pattern otherwise
parseTime12(humanTime, timeMatch) ==
    IF timeMatch.found THEN TimeOK(convert12(timeMatch))
    ELSE parseTime24(time24MatchOf(humanTime))

\* "Parse the time": hour, minute (JavaScript numbers, possibly NaN) and
\* second 0, or the "Could not parse the time" outcome
parseTime(humanTime) == parseTime12(humanTime, timeMatchOf(humanTime))

----------------------------------------------------------------------------
(* chrono-node: the date-phrase parser, for the phrases of the model.       *)
(* chrono.parse(text, ref) receives ref as a JavaScript Date, an instant    *)
(* without a zone, and reads its calendar fields in the local zone of the   *)
(* process.  A candidate holds the six fields and the set of fields that    *)
(* are certain (recognized in the text, not implied from the reference).    *)

Str_tomorrow == <<"t","o","m","o","r","r","o","w">>

\* the date phrases of the model
DateText ==
    [Tomorrow |-> <<"T","o","m","o","r","r","o","w">>,
     today |-> <<"t","o","d","a","y">>,
     ten_am |-> <<"1","0","a","m">>,
     january_5 |-> <<"j","a","n","u","a","r","y"," ","5">>,
     march_10 |-> <<"m","a","r","c","h"," ","1","0">>,
     january_5_or_today |->
       <<"j","a","n","u","a","r","y"," ","5"," ","o","r"," ","t","o","d","a","y">>,
     christmas |-> <<"c","h","r","i","s","t","m","a","s">>,
     tomorrow_at_2pm |->
       <<"t","o","m","o","r","r","o","w"," ","a","t"," ","2","p","m">>]

\* phrases in which chrono-node finds no date
NoDateText == {DateText.christmas, <<"n","e","w"," ","y","e","a","r">>}

Candidate(y, m, d, h, mi, sec, certain) ==
    [year |-> JSNumber(y), month |-> JSNumber(m), day |-> JSNumber(d),
     hour |-> JSNumber(h), minute |-> JSNumber(mi), second |-> JSNumber(sec),
     certain |-> certain]

\* start.get(field), start.isCertain(field)
get(start, field) == start[field]
isCertain(start, field) == field \in start.certain

\* the day number of a date
dayNumber(c) == DaysFromCivil(c.year, c.month, c.day)

\* the distance in days between y-m-d and the day number refDays
yearDistance(y, m, d, refDays) ==
    IF DaysFromCivil(y, m, d) < refDays THEN refDays - DaysFromCivil(y, m, d)
    ELSE DaysFromCivil(y, m, d) - refDays

\* the year in which month m, day d lies closest to the reference date
findYearClosestToRef(ref, m, d) ==
    IF yearDistance(ref.year + 1, m, d, dayNumber(ref))
          < yearDistance(ref.year, m, d, dayNumber(ref))
      THEN ref.year + 1
    ELSE IF yearDistance(ref.year - 1, m, d, dayNumber(ref))
          < yearDistance(ref.year, m, d, dayNumber(ref))
      THEN ref.year - 1
    ELSE ref.year

\* "today": the reference date, certain
chronoToday(ref) ==
    Candidate(ref.year, ref.month, ref.day, ref.hour, ref.minute, ref.second,
              {"year", "month", "day"})

\* a candidate on the date c at h o'clock
chronoOn(c, h, certain) ==
    Candidate(c.year, c.month, c.day, h, 0, 0, certain)

\* a date k days after the reference date, certain ("tomorrow ...")
chronoDayAfter(ref, k, h, certainTime) ==
    chronoOn(CivilFromDays(dayNumber(ref) + k), h,
             {"year", "month", "day"} \cup certainTime)

\* a time of day only: the date fields are implied from the reference date
\* (k days later under forwardDate) and are not certain
chronoTimeOnly(ref, k, h) ==
    chronoOn(CivilFromDays(dayNumber(ref) + k), h, {"hour", "minute"})

\* month m, day d in the year y; forwardDate moves a date that lies before
\* the reference date to the next year
chronoMonthDayIn(ref, y, m, d, forwardDate) ==
    Candidate(IF forwardDate /\ DaysFromCivil(y, m, d) < dayNumber(ref)
              THEN y + 1 ELSE y,
              m, d, 12, 0, 0, {"month", "day"})

\* a month and a day: the year is implied
chronoMonthDay(ref, m, d, forwardDate) ==
    chronoMonthDayIn(ref, findYearClosestToRef(ref, m, d), m, d, forwardDate)

NaNCandidate ==
    [year |-> NaN, month |-> NaN, day |-> NaN, hour |-> NaN, minute |-> NaN,
     second |-> NaN, certain |-> {}]

\* h o'clock lies before the reference time of day
earlierThanRef(ref, h) ==
    \/ h * 60 < ref.hour * 60 + ref.minute
    \/ (h * 60 = ref.hour * 60 + ref.minute
        /\ (ref.second > 0 \/ ref.millisecond > 0))

\* the candidate lists for the lower-case text, ref being the calendar
\* fields of the reference instant in the local zone of the process.
\* Defined for the date phrases of the model: what chrono-node makes of any
\* other phrase ("next week monday", "in 2 days") is not modelled
chronoParseRef(text, ref, forwardDate) ==
    IF text = DateText.today THEN {<<chronoToday(ref)>>}
    ELSE IF text = Str_tomorrow THEN {<<chronoDayAfter(ref, 1, 12, {})>>}
    ELSE IF text = DateText.tomorrow_at_2pm
      THEN {<<chronoDayAfter(ref, 1, 14, {"hour", "minute"})>>}
    ELSE IF text = DateText.ten_am
      THEN IF forwardDate /\ earlierThanRef(ref, 10)
           THEN {<<chronoTimeOnly(ref, 0, 10)>>, <<chronoTimeOnly(ref, 1, 10)>>}
           ELSE {<<chronoTimeOnly(ref, 0, 10)>>}
    ELSE IF text = DateText.january_5
      THEN {<<chronoMonthDay(ref, 1, 5, forwardDate)>>}
    ELSE IF text = DateText.march_10
      THEN {<<chronoMonthDay(ref, 3, 10, forwardDate)>>}
    ELSE CASE text = DateText.january_5_or_today ->
           {<<chronoMonthDay(ref, 1, 5, forwardDate), chronoToday(ref)>>}

\* chrono.parse(text, jsDate, { forwardDate }): the set of candidate lists
\* the installed chrono-node can return.  It is a single list except where
\* releases of chrono-node differ: a time-only phrase that lies before the
\* reference under forwardDate (kept on the reference date, or moved to the
\* next day), and an Invalid Date reference.
chronoParse(text, jsDate, serverZone, forwardDate) ==
    IF toLowerCase(text) \in NoDateText THEN {<<>>}
    ELSE IF ~jsDate.valid THEN {<<>>, <<NaNCandidate>>}
    ELSE chronoParseRef(toLowerCase(text),
                        tsToObj(jsDate.ts,
                                zoneOffset(serverZone, jsDate.ts.sec)),
                        forwardDate)

----------------------------------------------------------------------------
(* State                                                                    *)

VARIABLES
    op,     \* the operation that ran last
    req,    \* its request: method and body (handler) or arguments
    env,    \* the server process: local zone and wall-clock time
    res,    \* the response it sent or the value it returned
    calls,  \* the collaborators it invoked, in order
    loc,    \* its local variables when it returned
    prev    \* environment and response of the run before a replay

vars == <<op, req, env, res, calls, loc, prev>>

\* a response: sent counts the responses sent; ended is res.end() without a
\* body; the body fields are undefined when the body does not have them
NoResponse ==
    [sent |-> 0, status |-> 0, ended |-> FALSE, thrown |-> FALSE,
     error |-> "", message |-> [text |-> "", arg |-> <<>>],
     convertedDate |-> undefined, timeZone |-> undefined,
     humanDate |-> undefined, humanTime |-> undefined,
     clientCurrentTime |-> undefined, originalText |-> undefined]

ErrorResponse(status, error, text, arg) ==
    [NoResponse EXCEPT !.sent = 1, !.status = status, !.error = error,
                       !.message = [text |-> text, arg |-> arg]]

NoLocals ==
    [nowZoned |-> InvalidDateTime, dateResults |-> <<>>,
     hour |-> JSNumber(0), minute |-> JSNumber(0), second |-> JSNumber(0),
     built |-> InvalidDateTime, dt |-> InvalidDateTime,
     onlyTimeSpecified |-> FALSE, rolls |-> 0]

Outcome(r, c, l) == [res |-> r, calls |-> c, loc |-> l]

\* const { humanDate, ... } = req.body || {}
BodyField(body, name) ==
    IF body.t = "undefined" THEN undefined ELSE body[name]

----------------------------------------------------------------------------
(* The handler (src/api/parse-date.js)                                      *)

\* the candidate on the date and time of the wall-clock fields c, every
\* field certain
certainCandidate(c) ==
    << Candidate(c.year, c.month, c.day, c.hour, c.minute, c.second,
                 {"year", "month", "day", "hour", "minute", "second"}) >>

\* the candidate list for humanDate "tomorrow" (any letter case): the
\* reference instant plus one day, every field certain
tomorrowResults(nowZoned) ==
    certainCandidate(Fields(plusOneDay(nowZoned)))

\* const start = dateResults[0].start, taking the last candidate instead
startOf_last(dateResults) == dateResults[Len(dateResults)]

\* const start = dateResults[0].start
startOf(dateResults) == dateResults[1]

\* onlyTimeSpecified with || in place of &&
onlyTimeSpecifiedOf_any(start) ==
    \/ ~isCertain(start, "day")
    \/ ~isCertain(start, "month")
    \/ ~isCertain(start, "year")

\* !start.isCertain("day") && !start.isCertain("month")
\*     && !start.isCertain("year")
onlyTimeSpecifiedOf(start) ==
    /\ ~isCertain(start, "day")
    /\ ~isCertain(start, "month")
    /\ ~isCertain(start, "year")

\* if (dt < nowZoned) dt = dt.plus({ days: 1 })
shouldRoll(dt, nowZoned) == LessThan(dt, nowZoned)

\* the locals once the time is parsed and the DateTime is built and rolled
localsOf(nowZoned, dateResults, time, built, only, roll, dt) ==
    [NoLocals EXCEPT !.nowZoned = nowZoned, !.dateResults = dateResults,
                     !.hour = time.hour, !.minute = time.minute,
                     !.second = time.second, !.built = built, !.dt = dt,
                     !.onlyTimeSpecified = only,
                     !.rolls = IF roll THEN 1 ELSE 0]

\* the fields handed to DateTime.fromObject
objectOf(start, hour, minute, second) ==
    [year |-> get(start, "year"), month |-> get(start, "month"),
     day |-> get(start, "day"),
     hour |-> hour, minute |-> minute, second |-> second]

\* lines 191-205: the validity check and the success response
respond(body, l, calls0) ==
    IF ~l.dt.valid
      THEN Outcome(ErrorResponse(400, "Invalid date generated",
              "Could not generate a valid date from the provided inputs",
              <<>>), calls0, l)
    ELSE Outcome([NoResponse EXCEPT !.sent = 1, !.status = 200,
                                    !.convertedDate = toISO(l.dt),
                                    !.timeZone = body.timeZone,
                                    !.humanDate = body.humanDate,
                                    !.humanTime = body.humanTime,
                                    !.clientCurrentTime =
                                        body.clientCurrentTime],
                 Append(calls0, "toISO"), l)

\* lines 181-189: the roll-forward rule
rollForward(body, nowZoned, dateResults, time, built, only, roll, calls0) ==
    respond(body,
            localsOf(nowZoned, dateResults, time, built, only, roll,
                     IF roll THEN plusOneDay(built) ELSE built),
            IF roll THEN Append(calls0, "plus") ELSE calls0)

\* lines 181-186: onlyTimeSpecified and the comparison with nowZoned
decideRoll(body, nowZoned, dateResults, time, built, only, calls0) ==
    rollForward(body, nowZoned, dateResults, time, built, only,
                only /\ shouldRoll(built, nowZoned), calls0)

\* lines 170-179 without the try/catch of lines 37 and 207-213: the
\* exception of DateTime.fromObject leaves the handler, no response is sent
build_noCatch(body, nowZoned, dateResults, time, made, calls0) ==
    IF made.t = "throw"
      THEN Outcome([NoResponse EXCEPT !.thrown = TRUE], calls0,
                   [NoLocals EXCEPT !.nowZoned = nowZoned,
                                    !.dateResults = dateResults,
                                    !.hour = time.hour,
                                    !.minute = time.minute,
                                    !.second = time.second])
    ELSE decideRoll(body, nowZoned, dateResults, time, made.dt,
                    onlyTimeSpecifiedOf(startOf(dateResults)), calls0)

\* lines 170-179: DateTime.fromObject; its exception reaches the catch of
\* lines 207-213
build(body, nowZoned, dateResults, time, made, calls0) ==
    IF made.t = "throw"
      THEN Outcome(ErrorResponse(500, "Internal server error",
                                 "Invalid unit value NaN", <<>>), calls0,
                   [NoLocals EXCEPT !.nowZoned = nowZoned,
                                    !.dateResults = dateResults,
                                    !.hour = time.hour,
                                    !.minute = time.minute,
                                    !.second = time.second])
    ELSE decideRoll(body, nowZoned, dateResults, time, made.dt,
                    onlyTimeSpecifiedOf(startOf(dateResults)), calls0)

\* lines 138-179: the parsed time, then the DateTime
combine(body, e, nowZoned, dateResults, time, calls0) ==
    IF ~time.ok
      THEN Outcome(ErrorResponse(400, "Could not parse the time",
                                 "Unable to understand the time: ",
                                 body.humanTime.v), calls0,
                   [NoLocals EXCEPT !.nowZoned = nowZoned,
                                    !.dateResults = dateResults])
    ELSE build(body, nowZoned, dateResults, time,
               fromObject(objectOf(startOf(dateResults), time.hour,
                                   time.minute, time.second),
                          body.timeZone.v, e.serverNow),
               Append(calls0, "fromObject"))

\* lines 129-205 with the time phrase checked before the candidate list
resolve_timeFirst(body, e, nowZoned, dateResults, calls0) ==
    IF ~parseTime(body.humanTime.v).ok
      THEN Outcome(ErrorResponse(400, "Could not parse the time",
                                 "Unable to understand the time: ",
                                 body.humanTime.v),
                   Append(calls0, "timeParser"),
                   [NoLocals EXCEPT !.nowZoned = nowZoned,
                                    !.dateResults = dateResults])
    ELSE IF Len(dateResults) = 0
      THEN Outcome(ErrorResponse(400, "Could not parse the date",
                                 "Unable to understand the date: ",
                                 body.humanDate.v), calls0,
                   [NoLocals EXCEPT !.nowZoned = nowZoned,
                                    !.dateResults = dateResults])
    ELSE combine(body, e, nowZoned, dateResults, parseTime(body.humanTime.v),
                 Append(calls0, "timeParser"))

\* lines 129-205: from the candidate list to the response
resolve(body, e, nowZoned, dateResults, calls0) ==
    IF Len(dateResults) = 0
      THEN Outcome(ErrorResponse(400, "Could not parse the date",
                                 "Unable to understand the date: ",
                                 body.humanDate.v), calls0,
                   [NoLocals EXCEPT !.nowZoned = nowZoned,
                                    !.dateResults = dateResults])
    ELSE combine(body, e, nowZoned, dateResults, parseTime(body.humanTime.v),
                 Append(calls0, "timeParser"))

\* lines 101-127: the candidate list, from the "tomorrow" bypass or from
\* chrono; the result is the set of outcomes, one per candidate list chrono
\* can return
parseDate(body, e, nowZoned) ==
    IF toLowerCase(body.humanDate.v) = Str_tomorrow
      THEN {resolve(body, e, nowZoned, tomorrowResults(nowZoned),
                    <<"isValidZone", "fromISO", "setZone", "plus">>)}
    ELSE {resolve(body, e, nowZoned, dateResults,
                  <<"isValidZone", "fromISO", "setZone", "toJSDate",
                    "chrono.parse">>) :
            dateResults \in chronoParse(body.humanDate.v, toJSDate(nowZoned),
                                        e.serverZone, FALSE)}

\* an invalid reference instant replaced by the clock of the process
referenceInstant_fallsBackToNow(body, e, clientTime) ==
    IF ~clientTime.valid
      THEN parseDate(body, e,
                     setZone(MkDateTime(MkTs(e.serverNow, e.serverMs),
                                        e.serverZone,
                                        zoneOffset(e.serverZone,
                                                   e.serverNow)),
                             body.timeZone.v))
    ELSE parseDate(body, e, setZone(clientTime, body.timeZone.v))

\* lines 77-99: the reference instant
referenceInstant(body, e, clientTime) ==
    IF ~clientTime.valid
      THEN {Outcome(ErrorResponse(400, "Invalid clientCurrentTime format",
              "Please provide a valid ISO datetime string", <<>>),
              <<"isValidZone", "fromISO">>, NoLocals)}
    ELSE parseDate(body, e, setZone(clientTime, body.timeZone.v))

\* lines 40-75: the presence checks and the timezone gate
validate(body, e) ==
    IF Falsy(body.humanDate) \/ ~TypeofString(body.humanDate)
      THEN {Outcome(ErrorResponse(400,
              "Missing or invalid 'humanDate' parameter",
              "Please provide a natural language date request", <<>>),
              <<>>, NoLocals)}
    ELSE IF Falsy(body.humanTime) \/ ~TypeofString(body.humanTime)
      THEN {Outcome(ErrorResponse(400,
              "Missing or invalid 'humanTime' parameter",
              "Please provide a time", <<>>), <<>>, NoLocals)}
    ELSE IF Falsy(body.timeZone) \/ ~TypeofString(body.timeZone)
      THEN {Outcome(ErrorResponse(400,
              "Missing or invalid 'timeZone' parameter",
              "Please provide a valid IANA timezone", <<>>),
              <<>>, NoLocals)}
    ELSE IF Falsy(body.clientCurrentTime)
              \/ ~TypeofString(body.clientCurrentTime)
      THEN {Outcome(ErrorResponse(400,
              "Missing or invalid 'clientCurrentTime' parameter",
              "Please provide the client's current time in ISO format",
              <<>>), <<>>, NoLocals)}
    ELSE IF ~isValidZone(body.timeZone.v)
      THEN {Outcome(ErrorResponse(400, "Invalid timezone",
              " is not a valid IANA timezone", body.timeZone.v),
              <<"isValidZone">>, NoLocals)}
    ELSE referenceInstant(body, e,
                          fromISO(body.clientCurrentTime.v, e.serverZone,
                                  e.serverNow))

\* line 38: the four fields of req.body || {}
handlerPost(request, e) ==
    validate([humanDate |-> BodyField(request.body, "humanDate"),
              humanTime |-> BodyField(request.body, "humanTime"),
              timeZone |-> BodyField(request.body, "timeZone"),
              clientCurrentTime |->
                  BodyField(request.body, "clientCurrentTime")], e)

\* the handler without lines 26-35: every method reaches the pipeline
handler_noMethodCheck(request, e) == handlerPost(request, e)

\* lines 19-35: the method routing
handler(request, e) ==
    IF request.method = "OPTIONS"
      THEN {Outcome([NoResponse EXCEPT !.sent = 1, !.status = 200,
                                       !.ended = TRUE], <<>>, NoLocals)}
    ELSE IF request.method # "POST"
      THEN {Outcome(ErrorResponse(405, "Method not allowed",
                                  "Only POST requests are supported", <<>>),
                    <<>>, NoLocals)}
    ELSE handlerPost(request, e)

----------------------------------------------------------------------------
(* The single-phrase resolver (src/unnamed/part_000)                        *)

\* start.isCertain(f) ? start.get(f) : 0
certainOrZero(start, f) ==
    IF isCertain(start, f) THEN get(start, f) ELSE JSNumber(0)

\* lines 42-55 of the resolver: the roll-forward rule and the returned
\* value, without a validity check
singleReturn(a, nowZoned, results, time, built, only, roll, calls0) ==
    Outcome([NoResponse EXCEPT
               !.sent = 1,
               !.convertedDate =
                   toISO(IF roll THEN plusOneDay(built) ELSE built),
               !.timeZone = a.timeZone,
               !.originalText = a.text],
            Append(IF roll THEN Append(calls0, "plus") ELSE calls0, "toISO"),
            localsOf(nowZoned, results, time, built, only, roll,
                     IF roll THEN plusOneDay(built) ELSE built))

\* lines 31-49 of the resolver: DateTime.fromObject, whose exception leaves
\* the function, and onlyTimeSpecified
singleBuild(a, nowZoned, results, time, made, calls0) ==
    IF made.t = "throw"
      THEN Outcome([NoResponse EXCEPT !.thrown = TRUE], calls0,
                   [NoLocals EXCEPT !.nowZoned = nowZoned,
                                    !.dateResults = results,
                                    !.hour = time.hour,
                                    !.minute = time.minute,
                                    !.second = time.second])
    ELSE singleReturn(a, nowZoned, results, time, made.dt,
                      onlyTimeSpecifiedOf(results[1]),
                      onlyTimeSpecifiedOf(results[1])
                          /\ shouldRoll(made.dt, nowZoned),
                      calls0)

\* lines 24-40 of the resolver: the time fields of the candidate
singleCombine(a, e, nowZoned, results, time, calls0) ==
    singleBuild(a, nowZoned, results, time,
                fromObject(objectOf(results[1], time.hour, time.minute,
                                    time.second),
                           a.timeZone.v, e.serverNow),
                Append(calls0, "fromObject"))

\* no candidate returns the clock of the process instead of nowZoned
singleResolve_returnsServerClock(a, e, nowZoned, results, calls0) ==
    IF Len(results) = 0
      THEN Outcome([NoResponse EXCEPT
              !.sent = 1,
              !.convertedDate =
                  toISO(MkDateTime(MkTs(e.serverNow, e.serverMs),
                                   e.serverZone,
                                   zoneOffset(e.serverZone, e.serverNow))),
              !.message = [text |->
                 "Could not parse the provided text, returning current time",
                           arg |-> <<>>]],
              Append(calls0, "toISO"),
              [NoLocals EXCEPT !.nowZoned = nowZoned,
                               !.dateResults = results])
    ELSE singleCombine(a, e, nowZoned, results,
                       [hour |-> certainOrZero(results[1], "hour"),
                        minute |-> certainOrZero(results[1], "minute"),
                        second |-> certainOrZero(results[1], "second")],
                       calls0)

\* lines 17-29 of the resolver: no candidate returns the reference instant
singleResolve(a, e, nowZoned, results, calls0) ==
    IF Len(results) = 0
      THEN Outcome([NoResponse EXCEPT
              !.sent = 1,
              !.convertedDate = toISO(nowZoned),
              !.message = [text |->
                 "Could not parse the provided text, returning current time",
                           arg |-> <<>>]],
              Append(calls0, "toISO"),
              [NoLocals EXCEPT !.nowZoned = nowZoned,
                               !.dateResults = results])
    ELSE singleCombine(a, e, nowZoned, results,
                       [hour |-> certainOrZero(results[1], "hour"),
                        minute |-> certainOrZero(results[1], "minute"),
                        second |-> certainOrZero(results[1], "second")],
                       calls0)

\* line 15 of the resolver: chrono.parse with forwardDate
singleParse(a, e, nowZoned, calls0) ==
    {singleResolve(a, e, nowZoned, results, calls0) :
       results \in chronoParse(a.text.v, toJSDate(nowZoned), e.serverZone,
                               TRUE)}

\* lines 9-12 of the resolver: the reference instant, from now or from the
\* clock of the process
singleNow(a, e) ==
    IF ~Falsy(a.now)
      THEN singleParse(a, e,
                       setZone(fromISO(a.now.v, e.serverZone, e.serverNow),
                               a.timeZone.v),
                       <<"fromISO", "setZone", "toJSDate", "chrono.parse">>)
    ELSE singleParse(a, e,
                     setZone(MkDateTime(MkTs(e.serverNow, e.serverMs),
                                        e.serverZone,
                                        zoneOffset(e.serverZone,
                                                   e.serverNow)),
                             a.timeZone.v),
                     <<"now", "setZone", "toJSDate", "chrono.parse">>)

\* testParseDate(text, timeZone = "America/Chicago", now = null): the set of
\* outcomes, one per candidate list chrono can return
testParseDateSingle(request, e) ==
    singleNow([text |-> request.body.text,
               timeZone |-> IF request.body.timeZone.t = "undefined"
                            THEN JSString(Str_America_Chicago)
                            ELSE request.body.timeZone,
               now |-> IF request.body.now.t = "undefined" THEN null
                       ELSE request.body.now], e)

----------------------------------------------------------------------------
(* The two-phrase mock of the handler (src/test.js)                         *)

\* lines 10-12 of the mock: the zone of the reference instant, the default
\* zone when timeZone is not a recognized zone identifier
mockZone(timeZone) ==
    IF TypeofString(timeZone) /\ isValidZone(timeZone.v) THEN timeZone.v
    ELSE Str_America_Chicago

\* lines 15-17 of the mock: the reference instant in that zone, from
\* clientCurrentTime or from the clock of the process
mockNow(a, e) ==
    IF ~Falsy(a.clientCurrentTime)
      THEN setZone(fromISO(a.clientCurrentTime.v, e.serverZone, e.serverNow),
                   mockZone(a.timeZone))
    ELSE setZone(MkDateTime(MkTs(e.serverNow, e.serverMs), e.serverZone,
                            zoneOffset(e.serverZone, e.serverNow)),
                 mockZone(a.timeZone))

\* the mock returns the body without a status, and has no try/catch: the
\* exception of DateTime.fromObject leaves the function
mockReturn(out) ==
    IF out.res.status = 500
      THEN Outcome([NoResponse EXCEPT !.thrown = TRUE], out.calls, out.loc)
    ELSE Outcome([out.res EXCEPT !.status = 0], out.calls, out.loc)

\* lines 24-117 of the mock: chrono.parse with forwardDate, then the
\* statements of the handler's lines 129-205, DateTime.fromObject with the
\* zone timeZone and the response reporting timeZone
mockParse(a, e, nowZoned, calls0) ==
    {mockReturn(resolve(a, e, nowZoned, dateResults, calls0)) :
       dateResults \in chronoParse(a.humanDate.v, toJSDate(nowZoned),
                                   e.serverZone, TRUE)}

\* testParseDate(humanDate, humanTime, timeZone = "America/Chicago",
\*               clientCurrentTime = null)
testParseDateMock(request, e) ==
    mockParse([humanDate |-> request.body.humanDate,
               humanTime |-> request.body.humanTime,
               timeZone |-> IF request.body.timeZone.t = "undefined"
                            THEN JSString(Str_America_Chicago)
                            ELSE request.body.timeZone,
               clientCurrentTime |->
                   IF request.body.clientCurrentTime.t = "undefined"
                   THEN null ELSE request.body.clientCurrentTime],
              e,
              mockNow([timeZone |-> IF request.body.timeZone.t = "undefined"
                                    THEN JSString(Str_America_Chicago)
                                    ELSE request.body.timeZone,
                       clientCurrentTime |->
                           IF request.body.clientCurrentTime.t = "undefined"
                           THEN null ELSE request.body.clientCurrentTime],
                      e),
              <<"isValidZone",
                IF request.body.clientCurrentTime.t = "undefined"
                   \/ request.body.clientCurrentTime.v = <<>>
                THEN "now" ELSE "fromISO",
                "setZone", "toJSDate", "chrono.parse">>)

----------------------------------------------------------------------------
(* The development server (src/unnamed/part_001)                            *)

\* the member names the server destructures (line 25)
MemberName ==
    [humanDate |-> <<"h","u","m","a","n","D","a","t","e">>,
     humanTime |-> <<"h","u","m","a","n","T","i","m","e">>,
     timeZone |-> <<"t","i","m","e","Z","o","n","e">>]

\* the members the server destructures, absent
NoJson ==
    [humanDate |-> undefined, humanTime |-> undefined, timeZone |-> undefined]

\* the decimal digits of the natural number n
RECURSIVE decimal(_)
decimal(n) ==
    IF n < 10 THEN <<DigitChar(n)>>
    ELSE decimal(n \div 10) \o <<DigitChar(n % 10)>>

\* JSON.parse read the value val, which ends before position next
jsonOK(val, next) ==
    [ok |-> TRUE, val |-> val, next |-> next,
     message |-> [text |-> "", arg |-> <<>>]]

\* JSON.parse throws a SyntaxError with the message text + arg
jsonFail(text, arg) ==
    [ok |-> FALSE, message |-> [text |-> text, arg |-> arg]]

\* the SyntaxError that names the position of s[i], counted from 0, the
\* length of s at its end
jsonFailAt(text, s, i) ==
    jsonFail(text, decimal((IF i > Len(s) THEN Len(s) + 1 ELSE i) - 1))

\* the excerpt of s in the SyntaxError of an unexpected token at position
\* pos: all of s when s is shorter than 21 characters, else up to 10
\* characters either side of pos
jsonContext(s, pos) ==
    IF Len(s) < 21 THEN <<"\"">> \o s \o <<"\"">>
    ELSE IF pos < 10
      THEN <<"\"">> \o SubSeq(s, 1, pos + 10) \o <<"\"", ".", ".", ".">>
    ELSE IF pos < Len(s) - 10
      THEN <<".", ".", ".", "\"">> \o SubSeq(s, pos - 9, pos + 10)
             \o <<"\"", ".", ".", ".">>
    ELSE <<".", ".", ".", "\"">> \o SubSeq(s, pos - 9, Len(s)) \o <<"\"">>

\* the texts V8 reports whole: String(undefined), String(NaN),
\* String(Infinity) and String({})
jsonSpecial ==
    {<<"u", "n", "d", "e", "f", "i", "n", "e", "d">>, <<"N", "a", "N">>,
     <<"I", "n", "f", "i", "n", "i", "t", "y">>,
     <<"[", "o", "b", "j", "e", "c", "t", " ",
       "O", "b", "j", "e", "c", "t", "]">>}

\* the SyntaxError of the token at s[i] where the grammar has no place for
\* it and V8 has no message of its own: the end of the text, a number, a
\* string, or any other character
jsonUnexpected(s, i) ==
    IF i > Len(s) THEN jsonFail("Unexpected end of JSON input", <<>>)
    ELSE IF s[i] = "\""
      THEN jsonFailAt("Unexpected string in JSON at position ", s, i)
    ELSE IF IsDigit(s[i]) \/ s[i] = "-"
      THEN jsonFailAt("Unexpected number in JSON at position ", s, i)
    ELSE IF s \in jsonSpecial
      THEN jsonFail("", <<"\"">> \o s
                          \o <<"\"", " ", "i", "s", " ", "n", "o", "t", " ",
                               "v", "a", "l", "i", "d", " ",
                               "J", "S", "O", "N">>)
    ELSE jsonFail("Unexpected token ",
                  <<"'", s[i], "'", ",", " ">> \o jsonContext(s, i - 1)
                    \o <<" ", "i", "s", " ", "n", "o", "t", " ",
                         "v", "a", "l", "i", "d", " ", "J", "S", "O", "N">>)

\* the first position at or after i that holds no JSON white space
RECURSIVE jsonSkip(_, _)
jsonSkip(s, i) ==
    IF At(s, i) \in {" ", "\t", "\n", "\r"} THEN jsonSkip(s, i + 1) ELSE i

\* the value of a hexadecimal digit, -1 for any other character
jsonHex(c) ==
    IF IsDigit(c) THEN DigitVal(c)
    ELSE IF c \in {"a", "A"} THEN 10
    ELSE IF c \in {"b", "B"} THEN 11
    ELSE IF c \in {"c", "C"} THEN 12
    ELSE IF c \in {"d", "D"} THEN 13
    ELSE IF c \in {"e", "E"} THEN 14
    ELSE IF c \in {"f", "F"} THEN 15
    ELSE -1

\* the characters U+0020 to U+007E
jsonAscii ==
    <<" ", "!", "\"", "#", "$", "%", "&", "'", "(", ")", "*", "+", ",", "-",
      ".", "/", "0", "1", "2", "3", "4", "5", "6", "7", "8", "9", ":", ";",
      "<", "=", ">", "?", "@", "A", "B", "C", "D", "E", "F", "G", "H", "I",
      "J", "K", "L", "M", "N", "O", "P", "Q", "R", "S", "T", "U", "V", "W",
      "X", "Y", "Z", "[", "\\", "]", "^", "_", "U+0060", "a", "b", "c", "d",
      "e", "f", "g", "h", "i", "j", "k", "l", "m", "n", "o", "p", "q", "r",
      "s", "t", "u", "v", "w", "x", "y", "z", "{", "|", "}", "~">>

\* the character of the code unit n, written by its code point when a
\* string of this module has no escape for it
jsonChar(n) ==
    IF n >= 32 /\ n <= 126 THEN jsonAscii[n - 31]
    ELSE IF n = 9 THEN "\t"
    ELSE IF n = 10 THEN "\n"
    ELSE IF n = 12 THEN "\f"
    ELSE IF n = 13 THEN "\r"
    ELSE "U+" \o jsonAscii[IF (n \div 4096) < 10 THEN 17 + (n \div 4096)
                           ELSE 24 + (n \div 4096)]
              \o jsonAscii[IF ((n \div 256) % 16) < 10
                           THEN 17 + ((n \div 256) % 16)
                           ELSE 24 + ((n \div 256) % 16)]
              \o jsonAscii[IF ((n \div 16) % 16) < 10
                           THEN 17 + ((n \div 16) % 16)
                           ELSE 24 + ((n \div 16) % 16)]
              \o jsonAscii[IF (n % 16) < 10 THEN 17 + (n % 16)
                           ELSE 24 + (n % 16)]

\* the character an escape \c stands for
jsonEscape ==
    [c \in {"\"", "\\", "/", "b", "f", "n", "r", "t"} |->
        CASE c = "b" -> jsonChar(8) [] c = "f" -> "\f" [] c = "n" -> "\n"
          [] c = "r" -> "\r" [] c = "t" -> "\t" [] OTHER -> c]

\* the characters a string holds only as escapes: U+0000 to U+001F
jsonControl == {jsonChar(n) : n \in 0..31}

\* the characters U+0000 to U+00FF
jsonLatin1 == {jsonChar(n) : n \in 0..255}

RECURSIVE jsonString(_, _, _)

\* \uXXXX, i the position of the u: four hexadecimal digits
jsonUnicode(s, i, acc) ==
    IF \E k \in 1..4 : jsonHex(At(s, i + k)) < 0
      THEN jsonFailAt("Bad Unicode escape in JSON at position ", s,
                      i + Least({k \in 1..4 : jsonHex(At(s, i + k)) < 0}))
    ELSE jsonString(s, i + 5,
                    Append(acc, jsonChar(jsonHex(s[i + 1]) * 4096
                                         + jsonHex(s[i + 2]) * 256
                                         + jsonHex(s[i + 3]) * 16
                                         + jsonHex(s[i + 4]))))

\* a string from position i on, after its opening quote; acc is the part
\* read so far. After a backslash V8 looks the next character up in its
\* table of escapes, which covers U+0000 to U+00FF: the end of the text or
\* a character beyond the table is reported as the unexpected token it is
\* ("Unexpected end of JSON input" for a text that ends in a backslash),
\* a character of the table that is no escape as a bad escaped character
jsonString(s, i, acc) ==
    IF i > Len(s)
      THEN jsonFailAt("Unterminated string in JSON at position ", s, i)
    ELSE IF s[i] = "\"" THEN jsonOK(JSString(acc), i + 1)
    ELSE IF s[i] = "\\"
      THEN IF At(s, i + 1) = "u" THEN jsonUnicode(s, i + 1, acc)
           ELSE IF At(s, i + 1) \in DOMAIN jsonEscape
             THEN jsonString(s, i + 2, Append(acc, jsonEscape[s[i + 1]]))
           ELSE IF i + 1 > Len(s) \/ s[i + 1] \notin jsonLatin1
             THEN jsonUnexpected(s, i + 1)
           ELSE jsonFailAt("Bad escaped character in JSON at position ",
                           s, i + 1)
    ELSE IF s[i] \in jsonControl
      THEN jsonFailAt(
             "Bad control character in string literal in JSON at position ",
             s, i)
    ELSE jsonString(s, i + 1, Append(acc, s[i]))

\* the first position at or after i that holds no decimal digit
RECURSIVE jsonDigits(_, _)
jsonDigits(s, i) == IF IsDigit(At(s, i)) THEN jsonDigits(s, i + 1) ELSE i

\* the number written s[d0 .. k - 1] with the integer part s[d0 .. d1 - 1]
\* and the exponent from m on, for the numbers the model holds: an integer
\* written without fraction and exponent, or zero
jsonNumberValue(s, neg, d0, d1, m, k) ==
    CASE \A q \in d0..(m - 1) : s[q] \in {"0", "."} -> JSNumber(0)
      [] k = d1 /\ (\E q \in d0..(d1 - 1) : s[q] # "0") ->
           JSNumber((IF neg THEN -1 ELSE 1) * DigitsVal(SubSeq(s, d0, d1 - 1)))

\* the exponent part, from position m on
jsonExponent(s, neg, d0, d1, m) ==
    IF At(s, m) \notin {"e", "E"}
      THEN jsonOK(jsonNumberValue(s, neg, d0, d1, m, m), m)
    ELSE IF ~IsDigit(At(s, IF At(s, m + 1) \in {"+", "-"}
                           THEN m + 2 ELSE m + 1))
      THEN jsonFailAt(
             "Exponent part is missing a number in JSON at position ", s,
             IF At(s, m + 1) \in {"+", "-"} THEN m + 2 ELSE m + 1)
    ELSE jsonOK(jsonNumberValue(s, neg, d0, d1, m, jsonDigits(s, m + 2)),
                jsonDigits(s, m + 2))

\* the fraction part, from position d1 on
jsonFraction(s, neg, d0, d1) ==
    IF At(s, d1) # "." THEN jsonExponent(s, neg, d0, d1, d1)
    ELSE IF ~IsDigit(At(s, d1 + 1))
      THEN jsonFailAt(
             "Unterminated fractional number in JSON at position ", s,
             d1 + 1)
    ELSE jsonExponent(s, neg, d0, d1, jsonDigits(s, d1 + 1))

\* a number whose digits start at d0: a zero stands alone
jsonNumber(s, neg, d0) ==
    IF At(s, d0) = "0"
      THEN IF IsDigit(At(s, d0 + 1))
             THEN jsonFailAt("Unexpected number in JSON at position ", s,
                             d0 + 1)
           ELSE jsonFraction(s, neg, d0, d0 + 1)
    ELSE IF ~IsDigit(At(s, d0))
      THEN jsonFailAt("No number after minus sign in JSON at position ", s,
                      d0)
    ELSE jsonFraction(s, neg, d0, jsonDigits(s, d0))

\* true, false or null at position i, k characters of it read: the first
\* character that departs from the word is the unexpected token
RECURSIVE jsonLiteral(_, _, _, _, _)
jsonLiteral(s, i, word, k, val) ==
    IF k = Len(word) THEN jsonOK(val, i + k)
    ELSE IF At(s, i + k) = word[k + 1]
      THEN jsonLiteral(s, i, word, k + 1, val)
    ELSE jsonUnexpected(s, i + k)

\* the member key: value added to obj; a repeated key keeps the last value,
\* a key the server does not destructure is dropped
jsonSet(obj, key, value) ==
    IF key = MemberName.humanDate THEN [obj EXCEPT !.humanDate = value]
    ELSE IF key = MemberName.humanTime THEN [obj EXCEPT !.humanTime = value]
    ELSE IF key = MemberName.timeZone THEN [obj EXCEPT !.timeZone = value]
    ELSE obj

RECURSIVE jsonValue(_, _)
RECURSIVE jsonMembers(_, _, _, _)
RECURSIVE jsonElements(_, _)

\* after the element r of an array: "]" ends the array, "," starts an
\* element
jsonElementEnd(s, r) ==
    IF ~r.ok THEN r
    ELSE IF At(s, jsonSkip(s, r.next)) = ","
      THEN jsonElements(s, jsonSkip(s, r.next) + 1)
    ELSE IF At(s, jsonSkip(s, r.next)) = "]"
      THEN jsonOK([t |-> "array"], jsonSkip(s, r.next) + 1)
    ELSE jsonFailAt(
           "Expected ',' or ']' after array element in JSON at position ",
           s, jsonSkip(s, r.next))

\* the elements of an array from position i on
jsonElements(s, i) == jsonElementEnd(s, jsonValue(s, i))

\* after the value r of the member key: "}" ends the object, "," starts a
\* member
jsonValueEnd(s, obj, key, r) ==
    IF ~r.ok THEN r
    ELSE IF At(s, jsonSkip(s, r.next)) = ","
      THEN jsonMembers(s, jsonSkip(s, r.next) + 1,
                       jsonSet(obj, key, r.val), FALSE)
    ELSE IF At(s, jsonSkip(s, r.next)) = "}"
      THEN jsonOK([t |-> "object", obj |-> jsonSet(obj, key, r.val)],
                  jsonSkip(s, r.next) + 1)
    ELSE jsonFailAt(
           "Expected ',' or '}' after property value in JSON at position ",
           s, jsonSkip(s, r.next))

\* after the member name key: a colon and a value; the missing colon has a
\* message of its own after the first name of an object only
jsonKeyEnd(s, obj, first, key) ==
    IF ~key.ok THEN key
    ELSE IF At(s, jsonSkip(s, key.next)) = ":"
      THEN jsonValueEnd(s, obj, key.val.v,
                        jsonValue(s, jsonSkip(s, key.next) + 1))
    ELSE IF first
      THEN jsonFailAt(
             "Expected ':' after property name in JSON at position ", s,
             jsonSkip(s, key.next))
    ELSE jsonUnexpected(s, jsonSkip(s, key.next))

\* the members of an object from position i on, after "{" (first) or ","
jsonMembers(s, i, obj, first) ==
    IF At(s, jsonSkip(s, i)) # "\""
      THEN jsonFailAt(
             IF first
             THEN "Expected property name or '}' in JSON at position "
             ELSE "Expected double-quoted property name in JSON at position ",
             s, jsonSkip(s, i))
    ELSE jsonKeyEnd(s, obj, first, jsonString(s, jsonSkip(s, i) + 1, <<>>))

\* the value that starts at position j, by its first character
jsonValueAt(s, j) ==
    IF At(s, j) = "\"" THEN jsonString(s, j + 1, <<>>)
    ELSE IF At(s, j) = "-" THEN jsonNumber(s, TRUE, j + 1)
    ELSE IF IsDigit(At(s, j)) THEN jsonNumber(s, FALSE, j)
    ELSE IF At(s, j) = "{"
      THEN IF At(s, jsonSkip(s, j + 1)) = "}"
             THEN jsonOK([t |-> "object", obj |-> NoJson],
                         jsonSkip(s, j + 1) + 1)
           ELSE jsonMembers(s, j + 1, NoJson, TRUE)
    ELSE IF At(s, j) = "["
      THEN IF At(s, jsonSkip(s, j + 1)) = "]"
             THEN jsonOK([t |-> "array"], jsonSkip(s, j + 1) + 1)
           ELSE jsonElements(s, j + 1)
    ELSE IF At(s, j) = "t"
      THEN jsonLiteral(s, j, <<"t", "r", "u", "e">>, 1,
                       [t |-> "boolean", v |-> TRUE])
    ELSE IF At(s, j) = "f"
      THEN jsonLiteral(s, j, <<"f", "a", "l", "s", "e">>, 1,
                       [t |-> "boolean", v |-> FALSE])
    ELSE IF At(s, j) = "n"
      THEN jsonLiteral(s, j, <<"n", "u", "l", "l">>, 1, null)
    ELSE jsonUnexpected(s, j)

\* the value from position i on, after white space
jsonValue(s, i) == jsonValueAt(s, jsonSkip(s, i))

\* after the value r of the whole text: only white space may follow
jsonEnd(s, r) ==
    IF ~r.ok THEN r
    ELSE IF jsonSkip(s, r.next) <= Len(s)
      THEN jsonFailAt(
             "Unexpected non-whitespace character after JSON at position ",
             s, jsonSkip(s, r.next))
    ELSE r

\* JSON.parse(body), with the SyntaxError messages of V8.  An object is
\* read as the members the server destructures; a number has a value when
\* it is an integer written without fraction and exponent, or zero
JSONparse(s) == jsonEnd(s, jsonValue(s, 1))

\* the server's error bodies are { error } alone; its 500 body and its
\* success body are the handler's, without clientCurrentTime
devReturn(out) ==
    IF out.res.status = 400
      THEN Outcome([out.res EXCEPT !.message = [text |-> "", arg |-> <<>>]],
                   out.calls, out.loc)
    ELSE out

\* lines 36-119 of the server: chrono.parse with forwardDate, then the
\* statements of the handler's lines 129-205
devParse(body, e, nowZoned) ==
    {devReturn(resolve(body, e, nowZoned, dateResults,
                       <<"now", "setZone", "toJSDate", "chrono.parse">>)) :
       dateResults \in chronoParse(body.humanDate.v, toJSDate(nowZoned),
                                   e.serverZone, TRUE)}

\* lines 25-34 of the server: the destructuring with the default zone, the
\* presence check and DateTime.now().setZone(timeZone).  The server goes
\* on with any truthy humanDate and humanTime; the model follows it for
\* strings, and for a timeZone that is a string or absent
devFields(obj, e) ==
    IF Falsy(obj.humanDate) \/ Falsy(obj.humanTime)
      THEN {Outcome(ErrorResponse(400, "Missing humanDate or humanTime", "",
                                  <<>>), <<>>, NoLocals)}
    ELSE CASE /\ TypeofString(obj.humanDate)
              /\ TypeofString(obj.humanTime)
              /\ obj.timeZone.t \in {"undefined", "string"} ->
           devParse([humanDate |-> obj.humanDate,
                     humanTime |-> obj.humanTime,
                     timeZone |-> IF obj.timeZone.t = "undefined"
                                  THEN JSString(Str_America_Chicago)
                                  ELSE obj.timeZone,
                     clientCurrentTime |-> undefined],
                    e,
                    setZone(MkDateTime(MkTs(e.serverNow, e.serverMs),
                                       e.serverZone,
                                       zoneOffset(e.serverZone, e.serverNow)),
                            IF obj.timeZone.t = "undefined"
                            THEN Str_America_Chicago ELSE obj.timeZone.v))

\* lines 25 and 112-119 of the server: the SyntaxError of JSON.parse
\* reaches the catch, which sends its message; else the destructuring of
\* the parsed value: null has no properties to read (a TypeError), any
\* other value that is not an object has none of the three
devDestructure(r, e) ==
    IF ~r.ok
      THEN {Outcome(ErrorResponse(500, "Internal server error",
                                  r.message.text, r.message.arg),
                    <<>>, NoLocals)}
    ELSE IF r.val.t = "null"
      THEN {Outcome(ErrorResponse(500, "Internal server error",
              "Cannot destructure property 'humanDate' of 'JSON.parse(...)' as it is null.",
              <<>>), <<>>, NoLocals)}
    ELSE devFields(IF r.val.t = "object" THEN r.val.obj ELSE NoJson, e)

\* lines 23-25 of the server: the 'end' callback parses the body
devEnd(text, e) == devDestructure(JSONparse(text), e)

\* lines 13-20 and 121-124 of the server: the routing
devRoute(request) ==
    IF request.method = "OPTIONS" THEN "options"
    ELSE IF request.url = "/api/parse-date" /\ request.method = "POST"
      THEN "api"
    ELSE "help"

\* the responses the routing sends itself: the empty 200 and the help page
devDirect(route) ==
    IF route = "options"
      THEN [NoResponse EXCEPT !.sent = 1, !.status = 200, !.ended = TRUE]
    ELSE [NoResponse EXCEPT !.sent = 1, !.status = 200,
                            !.message = [text |-> "Human Time to ISO API",
                                         arg |-> <<>>]]

\* the chunks of a request body joined
RECURSIVE Joined(_)
Joined(chunks) ==
    IF chunks = <<>> THEN <<>> ELSE Head(chunks) \o Joined(Tail(chunks))

\* the createServer callback for a request whose chunks all arrive: the set
\* of outcomes
devServer(request, e) ==
    IF devRoute(request) = "api" THEN devEnd(Joined(request.chunks), e)
    ELSE {Outcome(devDirect(devRoute(request)), <<>>, NoLocals)}

\* the variable body that the 'data' and 'end' callbacks of connection c
\* close over: `let body` is declared inside the createServer callback
\* (line 21), one binding for each request
bufferOf_shared(c) == 1
bufferOf(c) == c

\* the bindings of the variables that the call serving connection c
\* declares: every const and let of the handler stands inside the function
\* body (lines 41-205), every one of the server inside the 'end' callback
\* (lines 25-110), and neither file assigns a variable of the module, so
\* one call has one set of bindings
frameOf_shared(c) == 1
frameOf(c) == c

----------------------------------------------------------------------------
(* Inputs                                                                   *)

\* time phrases
TimeText ==
    [at_2pm |-> <<"2","p","m">>,
     at_10am |-> <<"1","0","a","m">>,
     at_10_AM |-> <<"1","0"," ","A","M">>,
     at_8am |-> <<"8","a","m">>,
     at_12am |-> <<"1","2","a","m">>,
     at_12pm |-> <<"1","2","p","m">>,
     at_12_30am |-> <<"1","2",":","3","0","a","m">>,
     at_2_30am |-> <<"2",":","3","0","a","m">>,
     at_14_30 |-> <<"1","4",":","3","0">>,
     at_14 |-> <<"1","4">>,
     at_25_00 |-> <<"2","5",":","0","0">>,
     at_24_00 |-> <<"2","4",":","0","0">>,
     at_13pm |-> <<"1","3","p","m">>,
     at_2_75pm |-> <<"2",":","7","5","p","m">>,
     at_afternoon |-> <<"a","f","t","e","r","n","o","o","n">>,
     at_11_59pm |-> <<"1","1",":","5","9","p","m">>,
     at_noon |-> <<"n","o","o","n">>,
     at_pm |-> <<"p","m">>]

TimePhrases == {TimeText[f] : f \in DOMAIN TimeText}

\* date phrases
DatePhrases ==
    {Str_tomorrow, DateText.Tomorrow, DateText.today, DateText.ten_am,
     DateText.january_5, DateText.march_10, DateText.january_5_or_today,
     DateText.christmas}

\* reference instants as the client writes them
ClientTime ==
    [\* "2024-01-15T10:00:00Z"
     jan15_10Z |->
       <<"2","0","2","4","-","0","1","-","1","5","T","1","0",":","0","0",":","0","0","Z">>,
     \* "2024-01-15T02:00:00Z"
     jan15_02Z |->
       <<"2","0","2","4","-","0","1","-","1","5","T","0","2",":","0","0",":","0","0","Z">>,
     \* "2024-01-15T10:00:00"
     jan15_10_local |->
       <<"2","0","2","4","-","0","1","-","1","5","T","1","0",":","0","0",":","0","0">>,
     \* "2024-01-15T10:00:00-06:00"
     jan15_10_chi |->
       <<"2","0","2","4","-","0","1","-","1","5","T","1","0",":","0","0",":","0","0","-","0","6",":","0","0">>,
     \* "2024-03-09T12:00:00-06:00"
     mar09_noon_chi |->
       <<"2","0","2","4","-","0","3","-","0","9","T","1","2",":","0","0",":","0","0","-","0","6",":","0","0">>,
     \* "2024-12-31T23:30:00-06:00"
     dec31_late_chi |->
       <<"2","0","2","4","-","1","2","-","3","1","T","2","3",":","3","0",":","0","0","-","0","6",":","0","0">>,
     \* "2024-02-29T14:00:00.500-06:00"
     feb29_ms_chi |->
       <<"2","0","2","4","-","0","2","-","2","9","T","1","4",":","0","0",":","0","0",".","5","0","0","-","0","6",":","0","0">>,
     \* "2024-02-30T10:00:00Z"
     feb30 |->
       <<"2","0","2","4","-","0","2","-","3","0","T","1","0",":","0","0",":","0","0","Z">>,
     not_a_date |-> <<"n","o","t","-","a","-","d","a","t","e">>]

ClientTimes == {ClientTime[f] : f \in DOMAIN ClientTime}

ZoneNames == {Str_America_Chicago, Str_Asia_Tokyo, Str_UTC, Str_Nowhere_Fake}

\* bodies in which every field passes the presence checks
StringBodies ==
    [t : {"object"},
     humanDate : {JSString(x) : x \in DatePhrases},
     humanTime : {JSString(x) : x \in TimePhrases},
     timeZone : {JSString(x) : x \in ZoneNames},
     clientCurrentTime : {JSString(x) : x \in ClientTimes}]

SampleBody ==
    [t |-> "object", humanDate |-> JSString(DateText.today),
     humanTime |-> JSString(TimeText.at_2pm),
     timeZone |-> JSString(Str_America_Chicago),
     clientCurrentTime |-> JSString(ClientTime.jan15_10Z)]

\* each field valid, invalid for the timezone or the reference instant, or
\* failing its presence check: absent, empty, not a string
FewValues(field) ==
    {undefined, JSString(<<>>), JSNumber(42), SampleBody[field]} \cup
    (IF field = "timeZone" THEN {JSString(Str_Nowhere_Fake)}
     ELSE IF field = "clientCurrentTime" THEN {JSString(ClientTime.not_a_date)}
     ELSE IF field = "humanDate" THEN {JSString(DateText.christmas)}
     ELSE {JSString(TimeText.at_afternoon)})

Bodies ==
    StringBodies \cup
    [t : {"object"},
     humanDate : FewValues("humanDate"),
     humanTime : FewValues("humanTime"),
     timeZone : FewValues("timeZone"),
     clientCurrentTime : FewValues("clientCurrentTime")]

PostRequests ==
    [method : {"POST"}, body : Bodies \cup {undefined}]
OtherRequests ==
    [method : {"OPTIONS", "GET", "PUT"},
     body : {undefined, SampleBody,
             [SampleBody EXCEPT !.timeZone = JSString(Str_Nowhere_Fake)]}]

\* calls of the single-phrase resolver
SingleCalls ==
    [method : {"testParseDate"},
     body : [t : {"object"},
             text : {JSString(x) :
                       x \in {DateText.tomorrow_at_2pm, DateText.ten_am,
                              DateText.christmas}},
             timeZone : {undefined} \cup {JSString(x) : x \in ZoneNames},
             now : {undefined} \cup {JSString(x) : x \in ClientTimes}]]

\* calls of the two-phrase mock
MockCalls ==
    [method : {"testParseDateMock"},
     body : [t : {"object"},
             humanDate : {JSString(x) :
                            x \in {DateText.today, DateText.ten_am,
                                   DateText.christmas, Str_tomorrow}},
             humanTime : {JSString(x) :
                            x \in {TimeText.at_2pm, TimeText.at_8am,
                                   TimeText.at_14, TimeText.at_afternoon}},
             timeZone : {undefined} \cup {JSString(x) : x \in ZoneNames},
             clientCurrentTime :
                 {undefined} \cup
                 {JSString(x) :
                    x \in {ClientTime.jan15_10Z, ClientTime.jan15_10_local,
                           ClientTime.mar09_noon_chi,
                           ClientTime.not_a_date}}]]

\* request bodies: JSON.stringify of an object of string members, a body
\* cut after a value or after a later member name, an object written with
\* spaces as in the README, one whose humanTime "2pm" is written with the
\* escape \u0070, and a body cut after a backslash
Quote(s) == <<"\"">> \o s \o <<"\"">>
JsonMember(k, v) == Quote(k) \o <<":">> \o Quote(v)
JsonTexts ==
    {<<"{">> \o JsonMember(MemberName.humanDate, DateText.today) \o <<",">>
        \o JsonMember(MemberName.humanTime, TimeText.at_2pm) \o <<"}">>,
     <<"{">> \o JsonMember(MemberName.humanDate, DateText.ten_am) \o <<",">>
        \o JsonMember(MemberName.humanTime, TimeText.at_8am) \o <<",">>
        \o JsonMember(MemberName.timeZone, Str_Asia_Tokyo) \o <<"}">>,
     <<"{">> \o JsonMember(MemberName.humanDate, DateText.christmas) \o <<",">>
        \o JsonMember(MemberName.humanTime, TimeText.at_2pm) \o <<"}">>,
     <<"{">> \o JsonMember(MemberName.humanTime, TimeText.at_14) \o <<"}">>,
     <<"{">> \o JsonMember(MemberName.humanDate, DateText.today),
     <<"{">> \o JsonMember(MemberName.humanDate, DateText.today) \o <<",">>
        \o Quote(MemberName.humanTime),
     <<"{">> \o Quote(MemberName.humanDate) \o <<":", " ">>
        \o Quote(DateText.today) \o <<",", " ">>
        \o Quote(MemberName.humanTime) \o <<":", " ">>
        \o Quote(TimeText.at_2pm) \o <<"}">>,
     <<"{">> \o JsonMember(MemberName.humanDate, DateText.today) \o <<",">>
        \o Quote(MemberName.humanTime)
        \o <<":", "\"", "2", "\\", "u", "0", "0", "7", "0", "m", "\"", "}">>,
     <<"{">> \o Quote(MemberName.humanDate) \o <<":", "\"">>
        \o DateText.today \o <<"\\">>}

\* requests to a connection of the process: to the handler, whole, or to
\* the development server, the body in two chunks
ConnRequests ==
    {[target |-> "handler", method |-> "POST", url |-> "/api/parse-date",
      body |-> b, chunks |-> <<>>] :
        b \in {SampleBody,
               [SampleBody EXCEPT !.humanDate = JSString(DateText.ten_am),
                                  !.timeZone = JSString(Str_Asia_Tokyo)]}}
    \cup
    {[target |-> "dev", method |-> "POST", url |-> "/api/parse-date",
      body |-> undefined,
      chunks |-> <<SubSeq(t, 1, Len(t) \div 2),
                   SubSeq(t, Len(t) \div 2 + 1, Len(t))>>] :
        t \in JsonTexts}
    \cup
    {[target |-> "dev", method |-> "OPTIONS", url |-> "/api/parse-date",
      body |-> undefined, chunks |-> <<>>],
     [target |-> "dev", method |-> "GET", url |-> "/",
      body |-> undefined, chunks |-> <<>>]}

\* the server process: its local zone, and its wall clock (seconds and
\* milliseconds) when the request is served
WinterNow == DaysFromCivil(2024, 1, 20) * 86400 + 3600
SummerNow == DaysFromCivil(2024, 7, 1) * 86400 + 7200
Envs ==
    {[serverZone |-> FixedOffsetZone(0), serverNow |-> WinterNow,
      serverMs |-> 0],
     [serverZone |-> IANAZone(Str_America_Chicago), serverNow |-> WinterNow,
      serverMs |-> 250],
     [serverZone |-> IANAZone(Str_America_Chicago), serverNow |-> SummerNow,
      serverMs |-> 0],
     [serverZone |-> IANAZone(Str_Asia_Tokyo), serverNow |-> SummerNow,
      serverMs |-> 250]}

----------------------------------------------------------------------------
(* Specification: a request arrives at a server process (Init) and is       *)
(* served by one run of the handler                                         *)

NoPrev == [env |-> CHOOSE e \in Envs : TRUE, res |-> NoResponse, set |-> FALSE]

Init ==
    /\ op = "none"
    /\ req \in PostRequests \cup OtherRequests \cup SingleCalls
    /\ env \in Envs
    /\ res = NoResponse
    /\ calls = <<>>
    /\ loc = NoLocals
    /\ prev = NoPrev

Serve ==
    /\ op = "none"
    /\ \E out \in handler(req, env) :
        /\ op' = "handler"
        /\ res' = out.res
        /\ calls' = out.calls
        /\ loc' = out.loc
    /\ UNCHANGED <<req, env, prev>>

\* a POST request
Post == req.method = "POST" /\ Serve

\* a preflight request
Options == req.method = "OPTIONS" /\ Serve

\* any other method
MethodNotAllowed ==
    req.method \notin {"POST", "OPTIONS", "testParseDate"} /\ Serve

\* a call of the single-phrase resolver
SinglePhrase ==
    /\ op = "none"
    /\ req.method = "testParseDate"
    /\ \E out \in testParseDateSingle(req, env) :
        /\ op' = "testParseDate"
        /\ res' = out.res
        /\ calls' = out.calls
        /\ loc' = out.loc
    /\ UNCHANGED <<req, env, prev>>

Next == Post \/ Options \/ MethodNotAllowed \/ SinglePhrase

Spec == Init /\ [][Next]_vars

----------------------------------------------------------------------------
(* Specification of two invocations: a POST request is served, and the     *)
(* same request is served again by a server process whose local zone and   *)
(* wall clock may differ                                                    *)

InitDet ==
    /\ op = "none"
    /\ req \in PostRequests
    /\ env \in Envs
    /\ res = NoResponse
    /\ calls = <<>>
    /\ loc = NoLocals
    /\ prev = NoPrev

\* the second invocation; prev keeps the process and the response of the first
Replay ==
    /\ op = "handler"
    /\ \E e \in Envs :
         \E out \in handler(req, e) :
            /\ env' = e
            /\ res' = out.res
            /\ calls' = out.calls
            /\ loc' = out.loc
    /\ op' = "replay"
    /\ prev' = [env |-> env, res |-> res, set |-> TRUE]
    /\ UNCHANGED req

NextDet == Post \/ Replay

SpecDet == InitDet /\ [][NextDet]_vars

----------------------------------------------------------------------------
(* Specification of a round trip: a POST request is served, and the         *)
(* convertedDate of a success response comes back as the clientCurrentTime  *)
(* of a new request with the same timeZone                                  *)

\* the new request; prev keeps the process, the response and the resolved
\* DateTime dt of the first one
Resubmit ==
    /\ op = "handler"
    /\ req.method = "POST"
    /\ res.status = 200
    /\ \E e \in Envs :
         \E d \in {req.body.humanDate, JSString(DateText.ten_am)} :
            \E t \in {req.body.humanTime, JSString(TimeText.at_8am)} :
               \E out \in handler([method |-> "POST",
                                   body |-> [t |-> "object",
                                             humanDate |-> d,
                                             humanTime |-> t,
                                             timeZone |-> req.body.timeZone,
                                             clientCurrentTime |->
                                                 res.convertedDate]], e) :
                  /\ req' = [method |-> "POST",
                             body |-> [t |-> "object", humanDate |-> d,
                                       humanTime |-> t,
                                       timeZone |-> req.body.timeZone,
                                       clientCurrentTime |->
                                           res.convertedDate]]
                  /\ env' = e
                  /\ res' = out.res
                  /\ calls' = out.calls
                  /\ loc' = out.loc
    /\ op' = "resubmit"
    /\ prev' = [env |-> env, res |-> res, set |-> TRUE, dt |-> loc.dt]

NextRound == Post \/ Resubmit

SpecRound == InitDet /\ [][NextRound]_vars

----------------------------------------------------------------------------
(* Specification of the three resolvers side by side: a POST request to the *)
(* handler, a call of the single-phrase resolver or a call of the mock      *)

InitMock ==
    /\ op = "none"
    /\ req \in PostRequests \cup SingleCalls \cup MockCalls
    /\ env \in Envs
    /\ res = NoResponse
    /\ calls = <<>>
    /\ loc = NoLocals
    /\ prev = NoPrev

\* a call of the mock
TwoPhrase ==
    /\ op = "none"
    /\ req.method = "testParseDateMock"
    /\ \E out \in testParseDateMock(req, env) :
        /\ op' = "mock"
        /\ res' = out.res
        /\ calls' = out.calls
        /\ loc' = out.loc
    /\ UNCHANGED <<req, env, prev>>

NextMock == Post \/ SinglePhrase \/ TwoPhrase

SpecMock == InitMock /\ [][NextMock]_vars

----------------------------------------------------------------------------
(* Specification of two connections served by one process: in it req and   *)
(* res hold one request and one response per connection, loc holds the      *)
(* phase of each connection, the chunks it has delivered, the body          *)
(* variables and the variables each call declared, and calls holds the      *)
(* connection of each event in order. A call of the handler (it holds no    *)
(* await) and each 'data' or 'end' callback of the development server runs  *)
(* to completion; the events of the two connections interleave              *)

Connections == 1..2

InitConc ==
    /\ op = "none"
    /\ req \in [Connections -> ConnRequests]
    /\ env \in Envs
    /\ res = [c \in Connections |-> NoResponse]
    /\ calls = <<>>
    /\ loc = [phase |-> [c \in Connections |-> "new"],
              k |-> [c \in Connections |-> 0],
              body |-> [c \in Connections |-> <<>>],
              frame |-> [c \in Connections |-> NoLocals]]
    /\ prev = NoPrev

\* the createServer callback runs for connection c: the routing answers, or
\* `let body = ''` and the two listeners are registered
Arrive ==
    \E c \in Connections :
        /\ loc.phase[c] = "new"
        /\ req[c].target = "dev"
        /\ IF devRoute(req[c]) = "api"
             THEN /\ loc' = [loc EXCEPT !.phase[c] = "reading",
                                        !.body[bufferOf(c)] = <<>>]
                  /\ res' = res
             ELSE /\ loc' = [loc EXCEPT !.phase[c] = "done"]
                  /\ res' = [res EXCEPT ![c] = devDirect(devRoute(req[c]))]
        /\ op' = "arrive"
        /\ calls' = Append(calls, c)
        /\ UNCHANGED <<req, env, prev>>

\* req.on('data', chunk => body += chunk)
Data ==
    \E c \in Connections :
        /\ loc.phase[c] = "reading"
        /\ loc.k[c] < Len(req[c].chunks)
        /\ loc' = [loc EXCEPT !.k[c] = @ + 1,
                              !.body[bufferOf(c)] =
                                  @ \o req[c].chunks[loc.k[c] + 1]]
        /\ op' = "data"
        /\ calls' = Append(calls, c)
        /\ UNCHANGED <<req, env, res, prev>>

\* req.on('end', ...): the body is parsed and the response is sent
End ==
    \E c \in Connections :
        /\ loc.phase[c] = "reading"
        /\ loc.k[c] = Len(req[c].chunks)
        /\ \E out \in devEnd(loc.body[bufferOf(c)], env) :
              /\ res' = [res EXCEPT ![c] = out.res]
              /\ loc' = [loc EXCEPT !.phase[c] = "done",
                                    !.frame[frameOf(c)] = out.loc]
        /\ op' = "end"
        /\ calls' = Append(calls, c)
        /\ UNCHANGED <<req, env, prev>>

\* the platform calls the handler for connection c
Invoke ==
    \E c \in Connections :
        /\ loc.phase[c] = "new"
        /\ req[c].target = "handler"
        /\ \E out \in handler(req[c], env) :
              /\ res' = [res EXCEPT ![c] = out.res]
              /\ loc' = [loc EXCEPT !.phase[c] = "done",
                                    !.frame[frameOf(c)] = out.loc]
        /\ op' = "invoke"
        /\ calls' = Append(calls, c)
        /\ UNCHANGED <<req, env, prev>>

NextConc == Arrive \/ Data \/ End \/ Invoke

SpecConc == InitConc /\ [][NextConc]_vars

----------------------------------------------------------------------------
(* Specification of the mock beside the handler: a POST request is served   *)
(* by the handler, and the mock is called with the same four values by the  *)
(* same process                                                             *)

\* the call of the mock, for a request that passed the presence checks, the
\* timezone gate and the reference-instant check of the handler; prev keeps
\* the response and the resolved DateTime of the handler
Simulate ==
    /\ op = "handler"
    /\ req.method = "POST"
    /\ req.body \in StringBodies
    /\ loc.nowZoned.valid
    /\ \E out \in testParseDateMock(req, env) :
        /\ res' = out.res
        /\ calls' = out.calls
        /\ loc' = out.loc
    /\ op' = "simulate"
    /\ prev' = [env |-> env, res |-> res, set |-> TRUE, dt |-> loc.dt]
    /\ UNCHANGED <<req, env>>

NextSim == Post \/ Simulate

SpecSim == InitDet /\ [][NextSim]_vars

----------------------------------------------------------------------------
(* Specification of the time-of-day parser alone: a time phrase arrives     *)
(* (InitTime) and is parsed                                                 *)

MaxSpaces == 1
MaxFreeLen == 4

HourChars == {"0", "1", "2", "9"}

HourStrings ==
    {<<a>> : a \in HourChars} \cup {<<a, b>> : a, b \in HourChars}
MinuteStrings ==
    {<<>>} \cup {<<":", a, b>> : a, b \in {"0", "3", "5", "9"}}

\* white space other than the space between the digits and am/pm: a line
\* feed, a tab, a no-break space
SpaceChars == {"\n", "\t", "U+00A0"}

NoParts == [h |-> <<>>, mm |-> <<>>, sp |-> <<>>, suf |-> <<>>]

\* a phrase of the 12-hour form, with spaces or with other white space, of
\* the bare 24-hour form, or any text
TimeRequests ==
    {[method |-> "parseTime", kind |-> "12h",
      parts |-> [h |-> h, mm |-> mm, sp |-> sp, suf |-> suf],
      humanTime |-> h \o mm \o sp \o suf] :
        h \in HourStrings, mm \in MinuteStrings,
        sp \in {[i \in 1..n |-> " "] : n \in 0..MaxSpaces},
        suf \in {<<a, m>> : a \in {"a", "A", "p", "P"}, m \in {"m", "M"}}}
    \cup
    {[method |-> "parseTime", kind |-> "12h",
      parts |-> [h |-> h, mm |-> mm, sp |-> sp, suf |-> suf],
      humanTime |-> h \o mm \o sp \o suf] :
        h \in {<<"9">>, <<"1", "2">>}, mm \in {<<>>, <<":", "3", "0">>},
        sp \in {[i \in 1..n |-> c] : n \in 1..MaxSpaces, c \in SpaceChars},
        suf \in {<<a, m>> : a \in {"a", "A", "p", "P"}, m \in {"m", "M"}}}
    \cup
    {[method |-> "parseTime", kind |-> "24h",
      parts |-> [NoParts EXCEPT !.h = h, !.mm = mm],
      humanTime |-> h \o mm] : h \in HourStrings, mm \in MinuteStrings}
    \cup
    {[method |-> "parseTime", kind |-> "free", parts |-> NoParts,
      humanTime |-> x] :
        x \in UNION {[1..n -> {"1", "2", ":", " ", "a", "p", "m", "x"}] :
                       n \in 1..MaxFreeLen}}

InitTime ==
    /\ op = "none"
    /\ req \in TimeRequests
    /\ env = CHOOSE e \in Envs : TRUE
    /\ res = NoResponse
    /\ calls = <<>>
    /\ loc = NoLocals
    /\ prev = NoPrev

\* lines 138-168 on their own
ParseTimeStep ==
    /\ op = "none"
    /\ LET time == parseTime(req.humanTime)
       IN /\ op' = "parseTime"
          /\ loc' = [NoLocals EXCEPT !.hour = time.hour,
                                     !.minute = time.minute,
                                     !.second = time.second]
          /\ res' = IF time.ok THEN NoResponse
                    ELSE ErrorResponse(400, "Could not parse the time",
                                       "Unable to understand the time: ",
                                       req.humanTime)
          /\ calls' = <<"timeParser">>
    /\ UNCHANGED <<req, env, prev>>

SpecTime == InitTime /\ [][ParseTimeStep]_vars

----------------------------------------------------------------------------
(* Properties                                                               *)

InSeq(x, s) == \E i \in 1..Len(s) : s[i] = x

\* the handler served a POST request whose body carries four strings
PostWithStrings ==
    /\ op = "handler"
    /\ req.method = "POST"
    /\ req.body \in StringBodies

\* the handler answered the POST request with a success response
Succeeded == PostWithStrings /\ res.status = 200

\* the first candidate marks year, month and day all uncertain
TimeOnly ==
    /\ Len(loc.dateResults) > 0
    /\ \A f \in {"year", "month", "day"} : ~isCertain(loc.dateResults[1], f)

\* the first candidate marks at least one of year, month, day certain
SomeDateCertain ==
    /\ Len(loc.dateResults) > 0
    /\ \E f \in {"year", "month", "day"} : isCertain(loc.dateResults[1], f)

\* milliseconds since midnight of wall-clock fields
WallMs(c) == ((c.hour * 60 + c.minute) * 60 + c.second) * 1000 + c.millisecond

\* the applications of dt.plus({ days: 1 }) to the built DateTime
RollCalls ==
    Cardinality({j \in 1..Len(calls) :
                   /\ calls[j] = "plus"
                   /\ \E i \in 1..(j - 1) : calls[i] = "fromObject"})

\* C1: when the first candidate marks year, month and day uncertain and the
\* handler succeeds, the returned instant has the hour and minute parsed from
\* humanTime, on the calendar date of the reference instant r in the target
\* zone if that wall-clock time is not earlier than r, and on the next
\* calendar day if it is earlier.
C1_TimeOnlyRollForward ==
    (Succeeded /\ TimeOnly) =>
        LET r     == Fields(loc.nowZoned)
            got   == Fields(loc.dt)
            today == DaysFromCivil(r.year, r.month, r.day)
            asked == (loc.hour.v * 60 + loc.minute.v) * 60000
        IN /\ got.hour = loc.hour.v
           /\ got.minute = loc.minute.v
           /\ DaysFromCivil(got.year, got.month, got.day)
                = IF asked >= WallMs(r) THEN today ELSE today + 1

\* C2: the roll-forward rule is applied at most once per request, and never
\* when the first candidate marks one of day, month, year certain: the
\* instant built from the candidate's date and the explicit time is then
\* returned unchanged, also when it is earlier than the reference instant.
C2_NoRollForExplicitDate ==
    (op \in {"handler", "testParseDate"}) =>
        /\ loc.rolls <= 1
        /\ RollCalls = loc.rolls
        /\ (SomeDateCertain /\ InSeq("fromObject", calls)) =>
              /\ loc.rolls = 0
              /\ loc.dt = loc.built
              /\ (res.convertedDate.t # "undefined") =>
                    res.convertedDate = toISO(loc.built)

\* "january 5" (month and day certain, year implied) with a time was resolved
\* to an instant before the reference instant and returned as built
C2_Witness ==
    /\ Succeeded
    /\ isCertain(loc.dateResults[1], "day")
    /\ ~isCertain(loc.dateResults[1], "year")
    /\ LessThan(loc.built, loc.nowZoned)
    /\ loc.rolls = 0
    /\ res.convertedDate = toISO(loc.built)

\* C3: the same POST request served twice gets the same status and the same
\* response body, whatever the local zone and the wall clock of the server
\* process are at each invocation.
C3_Determinism ==
    (op = "replay") => res = prev.res

\* C4: in every success response of the handler the hour, minute and second
\* of the resolved instant in the target zone are the time-of-day parser's
\* output with second 0, and rolling forward does not change them.
C4_ExplicitTimeWins ==
    Succeeded =>
        /\ loc.second = JSNumber(0)
        /\ Fields(loc.dt).hour = loc.hour.v
        /\ Fields(loc.dt).minute = loc.minute.v
        /\ Fields(loc.dt).second = 0
        /\ Fields(loc.built).hour = Fields(loc.dt).hour
        /\ Fields(loc.built).minute = Fields(loc.dt).minute
        /\ Fields(loc.built).second = Fields(loc.dt).second

\* C5: a phrase of the form H[:MM][space](am|pm), in any letter case, is
\* parsed to minute MM (0 without :MM) and to hour H+12 for pm with H # 12,
\* 12 for pm with H = 12, 0 for am with H = 12 and H for am otherwise.
C5_TwelveHourConversion ==
    (op = "parseTime" /\ req.kind = "12h") =>
        LET H  == DigitsVal(req.parts.h)
            pm == req.parts.suf[1] \in {"p", "P"}
        IN /\ res.error = ""
           /\ loc.minute = JSNumber(IF req.parts.mm = <<>> THEN 0
                                    ELSE DigitsVal(Tail(req.parts.mm)))
           /\ loc.hour = JSNumber(IF pm /\ H # 12 THEN H + 12
                                  ELSE IF pm THEN 12
                                  ELSE IF H = 12 THEN 0
                                  ELSE H)

\* "12pm" was parsed to 12:00, "12:30am" to 0:30 and "12 AM" to 0:00
C5_Witness ==
    /\ op = "parseTime"
    /\ req.kind = "12h"
    /\ req.parts.h = <<"1", "2">>
    /\ \/ (req.humanTime = <<"1", "2", "p", "m">>
            /\ loc.hour = JSNumber(12) /\ loc.minute = JSNumber(0))
       \/ (req.humanTime = <<"1", "2", ":", "3", "0", "a", "m">>
            /\ loc.hour = JSNumber(0) /\ loc.minute = JSNumber(30))
       \/ (req.humanTime = <<"1", "2", " ", "A", "M">>
            /\ loc.hour = JSNumber(0) /\ loc.minute = JSNumber(0))

\* C6: a request that reaches the time-of-day parser with "14" or "14:30"
\* succeeds, with hour 14, minute 0 or 30, second 0, and wall clock 14:MM:00.
C6_Bare24HourAccepted ==
    (/\ PostWithStrings
     /\ InSeq("timeParser", calls)
     /\ req.body.humanTime.v \in {TimeText.at_14, TimeText.at_14_30}) =>
        LET mm == IF req.body.humanTime.v = TimeText.at_14 THEN 0 ELSE 30
        IN /\ res.status = 200
           /\ loc.hour = JSNumber(14)
           /\ loc.minute = JSNumber(mm)
           /\ loc.second = JSNumber(0)
           /\ Fields(loc.dt).hour = 14
           /\ Fields(loc.dt).minute = mm
           /\ Fields(loc.dt).second = 0

\* humanTime matches neither the 12-hour nor the bare 24-hour pattern
MatchesNeither(humanTime) ==
    ~timeMatchOf(humanTime).found /\ ~time24MatchOf(humanTime).found

TimeErrorFor(humanTime) ==
    /\ res.status = 400
    /\ res.error = "Could not parse the time"
    /\ res.message.arg = humanTime
    /\ res.convertedDate = undefined

\* the request passes the presence checks, the timezone gate and the
\* reference-instant check
FieldsValid ==
    /\ PostWithStrings
    /\ isValidZone(req.body.timeZone.v)
    /\ InSeq("setZone", calls)

\* C7 as stated: every request whose humanTime matches neither pattern is
\* answered with the "Could not parse the time" error naming humanTime
\* (here even restricted to requests whose fields are all valid).
C7_AlwaysTimeError ==
    (FieldsValid /\ MatchesNeither(req.body.humanTime.v)) =>
        TimeErrorFor(req.body.humanTime.v)

\* C7 amended: a request whose humanTime matches neither pattern and that
\* has passed the checks before the time-of-day parser (field presence,
\* timezone, reference instant, date phrase) is answered with the "Could not
\* parse the time" error naming humanTime, without a convertedDate.
C7_TimeErrorWhenReached ==
    (/\ FieldsValid
     /\ Len(loc.dateResults) > 0
     /\ MatchesNeither(req.body.humanTime.v)) =>
        TimeErrorFor(req.body.humanTime.v)

\* "afternoon" after a date phrase that parsed was answered with the error
C7_Witness ==
    /\ FieldsValid
    /\ Len(loc.dateResults) > 0
    /\ req.body.humanTime.v = TimeText.at_afternoon
    /\ TimeErrorFor(TimeText.at_afternoon)

DateErrorFor(humanDate) ==
    /\ res.status = 400
    /\ res.error = "Could not parse the date"
    /\ res.message.text = "Unable to understand the date: "
    /\ res.message.arg = humanDate
    /\ res.convertedDate.t = "undefined"

\* C8: an empty candidate list is answered with the "Could not parse the
\* date" error naming humanDate; with a non-empty list the response is the
\* one the first candidate alone gives, whatever candidates follow it.
C8_FirstCandidateOnly ==
    FieldsValid =>
        /\ (Len(loc.dateResults) = 0) => DateErrorFor(req.body.humanDate.v)
        /\ (Len(loc.dateResults) > 0) =>
              /\ res.error # "Could not parse the date"
              /\ res = resolve(req.body, env, loc.nowZoned,
                               <<loc.dateResults[1]>>, <<>>).res

\* "january 5 or today" gave two candidates on different dates, and the
\* response carries the first one's date, January 5
C8_Witness ==
    /\ FieldsValid
    /\ Len(loc.dateResults) = 2
    /\ get(loc.dateResults[1], "day") # get(loc.dateResults[2], "day")
    /\ res.status = 200
    /\ Fields(loc.dt).month = 1
    /\ Fields(loc.dt).day = 5

\* the time fields handed to DateTime.fromObject are out of range
TimeOutOfRange ==
    /\ loc.hour.t = "number"
    /\ loc.minute.t = "number"
    /\ (loc.hour.v > 23 \/ loc.minute.v > 59)

\* C9: when the combined fields do not form a valid instant (hour above 23,
\* minute above 59, day out of range) the request fails with "Invalid date
\* generated"; no returned convertedDate is null or comes from an invalid
\* instant; for the handler and for the single-phrase resolver.
C9_InvalidInstantFails ==
    (/\ op \in {"handler", "testParseDate"}
     /\ InSeq("fromObject", calls)
     /\ ~res.thrown
     /\ res.status # 500) =>
        /\ (~loc.built.valid \/ TimeOutOfRange) =>
              /\ res.error = "Invalid date generated"
              /\ res.convertedDate.t = "undefined"
        /\ (res.convertedDate.t # "undefined") =>
              /\ res.convertedDate.t = "string"
              /\ loc.built.valid
              /\ loc.dt.valid

\* the zone identifiers the IANA registry of the model knows
RecognizedZones == {Str_America_Chicago, Str_Asia_Tokyo, Str_UTC}

InvalidZoneRejected ==
    /\ res.status = 400
    /\ res.error = "Invalid timezone"
    /\ res.message.arg = req.body.timeZone.v
    /\ res.convertedDate.t = "undefined"
    /\ ~InSeq("fromISO", calls)
    /\ ~InSeq("setZone", calls)
    /\ ~InSeq("chrono.parse", calls)
    /\ ~InSeq("timeParser", calls)
    /\ ~InSeq("fromObject", calls)

\* C10 as stated: every POST request whose timeZone is a string that is not
\* a recognized zone identifier is answered with the "Invalid timezone"
\* error, and the reference instant, the date phrase and the time phrase are
\* never parsed for it.
C10_InvalidZoneAlwaysRejected ==
    (/\ op = "handler"
     /\ req.method = "POST"
     /\ req.body.t = "object"
     /\ req.body.timeZone.t = "string"
     /\ req.body.timeZone.v \notin RecognizedZones) =>
        InvalidZoneRejected

\* C10 amended: every POST request whose four fields are non-empty strings
\* and whose timeZone is not a recognized zone identifier is answered with
\* the "Invalid timezone" error, and the reference instant, the date phrase
\* and the time phrase are never parsed for it.
C10_InvalidZoneGate ==
    (/\ op = "handler"
     /\ req.method = "POST"
     /\ req.body.t = "object"
     /\ \A f \in {"humanDate", "humanTime", "timeZone", "clientCurrentTime"} :
           req.body[f].t = "string" /\ req.body[f].v # <<>>
     /\ req.body.timeZone.v \notin RecognizedZones) =>
        InvalidZoneRejected

\* "Nowhere/Fake" with three valid fields was answered "Invalid timezone"
\* after the zone check alone
C10_Witness ==
    /\ PostWithStrings
    /\ req.body.timeZone.v = Str_Nowhere_Fake
    /\ req.body.humanDate.v = DateText.today
    /\ req.body.humanTime.v = TimeText.at_2pm
    /\ req.body.clientCurrentTime.v = ClientTime.jan15_10Z
    /\ InvalidZoneRejected
    /\ calls = <<"isValidZone">>

\* the four body fields in the order of their presence checks
BodyFields == <<"humanDate", "humanTime", "timeZone", "clientCurrentTime">>

\* the field is missing, empty or not a string
FieldBad(f) ==
    \/ BodyField(req.body, f).t # "string"
    \/ BodyField(req.body, f).v = <<>>

PresenceError ==
    [humanDate |-> "Missing or invalid 'humanDate' parameter",
     humanTime |-> "Missing or invalid 'humanTime' parameter",
     timeZone |-> "Missing or invalid 'timeZone' parameter",
     clientCurrentTime |-> "Missing or invalid 'clientCurrentTime' parameter"]

\* C11: a POST request with a missing, empty or non-string field is rejected
\* with a presence error before the timezone validator, the reference-instant
\* parse, the date-phrase parser or the time-of-day parser is invoked; the
\* error is the one of the field itself when the fields checked before it are
\* present (always, for humanDate).
C11_FailFastPresence ==
    (op = "handler" /\ req.method = "POST") =>
        \A i \in 1..4 :
            FieldBad(BodyFields[i]) =>
                /\ res.sent = 1
                /\ res.status = 400
                /\ res.error \in {PresenceError[BodyFields[j]] : j \in 1..i}
                /\ (\A j \in 1..(i - 1) : ~FieldBad(BodyFields[j])) =>
                      res.error = PresenceError[BodyFields[i]]
                /\ res.convertedDate.t = "undefined"
                /\ calls = <<>>

\* an empty humanDate beside an unrecognized timezone and an unparseable
\* reference instant was answered with the humanDate error, nothing invoked
C11_Witness ==
    /\ op = "handler"
    /\ req.method = "POST"
    /\ req.body.t = "object"
    /\ req.body.humanDate = JSString(<<>>)
    /\ req.body.timeZone = JSString(Str_Nowhere_Fake)
    /\ req.body.clientCurrentTime = JSString(ClientTime.not_a_date)
    /\ res.error = PresenceError.humanDate
    /\ calls = <<>>

\* clientCurrentTime is missing, not a string, unparseable or not a valid
\* calendar instant
ClientTimeBad ==
    \/ FieldBad("clientCurrentTime")
    \/ req.body.clientCurrentTime.v
          \in {ClientTime.not_a_date, ClientTime.feb30}

\* C12: a POST request whose clientCurrentTime is missing, unparseable or
\* not a valid calendar instant is answered with a 400 validation error,
\* never with an exception or a success, and no path of the handler takes
\* the wall clock of the server process as the reference instant.
C12_MandatoryReference ==
    (op = "handler" /\ req.method = "POST") =>
        /\ ~InSeq("now", calls)
        /\ loc.nowZoned.valid =>
              loc.nowZoned.ts # MkTs(env.serverNow, env.serverMs)
        /\ ClientTimeBad =>
              /\ res.sent = 1
              /\ res.status = 400
              /\ ~res.thrown
              /\ res.convertedDate.t = "undefined"
              /\ ~loc.nowZoned.valid
              /\ ~InSeq("chrono.parse", calls)
              /\ ~InSeq("timeParser", calls)
              /\ ~InSeq("fromObject", calls)
        /\ (PostWithStrings /\ ClientTimeBad
              /\ req.body.timeZone.v \in RecognizedZones) =>
              res.error = "Invalid clientCurrentTime format"

\* "not-a-date" beside three valid fields was answered "Invalid
\* clientCurrentTime format" after the zone check and the parse alone
C12_Witness ==
    /\ PostWithStrings
    /\ req.body = [SampleBody EXCEPT
                     !.clientCurrentTime = JSString(ClientTime.not_a_date)]
    /\ res.status = 400
    /\ res.error = "Invalid clientCurrentTime format"
    /\ calls = <<"isValidZone", "fromISO">>

\* C13: the handler answers OPTIONS with status 200 and an empty body,
\* whatever the request body is; it answers every method other than POST
\* and OPTIONS with 405 "Method not allowed"; for neither does it validate
\* or parse anything, and only a POST request reaches the pipeline or
\* gets a convertedDate.
C13_MethodRouting ==
    op = "handler" =>
        /\ req.method = "OPTIONS" =>
              /\ res = [NoResponse EXCEPT !.sent = 1, !.status = 200,
                                          !.ended = TRUE]
              /\ calls = <<>>
              /\ loc = NoLocals
        /\ req.method \notin {"POST", "OPTIONS"} =>
              /\ res = ErrorResponse(405, "Method not allowed",
                                     "Only POST requests are supported",
                                     <<>>)
              /\ calls = <<>>
              /\ loc = NoLocals
        /\ (calls # <<>> \/ res.convertedDate.t # "undefined"
              \/ res.status \in {400, 500}) =>
              req.method = "POST"

\* an OPTIONS request carrying a body with an unrecognized timezone was
\* answered 200 with no body
C13_Witness ==
    /\ op = "handler"
    /\ req.method = "OPTIONS"
    /\ req.body = [SampleBody EXCEPT !.timeZone = JSString(Str_Nowhere_Fake)]
    /\ res.status = 200
    /\ res.ended
    /\ res.error = ""

\* the single-phrase resolver ran and chrono returned no candidate
SingleNoCandidate == op = "testParseDate" /\ Len(loc.dateResults) = 0

\* the supplied now and the returned convertedDate, as a reader of ISO text
\* takes them
NowRead == fromISO(req.body.now.v, env.serverZone, env.serverNow)
ReturnedRead == fromISO(res.convertedDate.v, env.serverZone, env.serverNow)

\* C14: when chrono returns no candidate for the text, the single-phrase
\* resolver reports no error and throws nothing; it returns the text of the
\* reference instant nowZoned with the message "Could not parse the
\* provided text, returning current time", no day is added to it, and for
\* a supplied now and a recognized zone the returned text denotes the
\* instant of now at the offset of the target zone.
C14_SoftFailure ==
    SingleNoCandidate =>
        /\ res.sent = 1
        /\ ~res.thrown
        /\ res.error = ""
        /\ res.status = 0
        /\ res.convertedDate = toISO(loc.nowZoned)
        /\ res.message.text =
              "Could not parse the provided text, returning current time"
        /\ loc.rolls = 0
        /\ ~InSeq("plus", calls)
        /\ ~InSeq("fromObject", calls)
        /\ (req.body.now.t = "string" /\ NowRead.valid
              /\ loc.nowZoned.valid) =>
              /\ res.convertedDate.t = "string"
              /\ ReturnedRead.valid
              /\ ReturnedRead.ts = NowRead.ts
              /\ ReturnedRead.o = zoneOffset(loc.nowZoned.zone, NowRead.ts.sec)

\* "christmas" with now "2024-01-15T10:00:00Z" in Asia/Tokyo returned
\* "2024-01-15T19:00:00+09:00" with the message
C14_Witness ==
    /\ SingleNoCandidate
    /\ req.body.text = JSString(DateText.christmas)
    /\ req.body.timeZone = JSString(Str_Asia_Tokyo)
    /\ req.body.now = JSString(ClientTime.jan15_10Z)
    /\ res.convertedDate =
          JSString(<<"2","0","2","4","-","0","1","-","1","5","T","1","9",
                     ":","0","0",":","0","0","+","0","9",":","0","0">>)
    /\ res.message.text # ""

\* the text ends with "Z" or with +HH:MM / -HH:MM
EndsWithOffset(s) ==
    \/ At(s, Len(s)) = "Z"
    \/ /\ Len(s) >= 6
       /\ At(s, Len(s) - 5) \in {"+", "-"}
       /\ DigitsAt(s, Len(s) - 4, 2)
       /\ At(s, Len(s) - 2) = ":"
       /\ DigitsAt(s, Len(s) - 1, 2)

\* C15: every convertedDate returned by a success path of the handler or of
\* the single-phrase resolver, the fallback that returns the reference
\* instant included, is YYYY-MM-DDTHH:MM:SS followed by an offset: it holds
\* no fractional-second part, also when the reference instant carries
\* milliseconds.
C15_NoFraction ==
    (op \in {"handler", "testParseDate"} /\ res.sent = 1
        /\ res.status \in {0, 200} /\ res.error = ""
        /\ res.convertedDate.t = "string") =>
        /\ ~InSeq(".", res.convertedDate.v)
        /\ EndsWithOffset(res.convertedDate.v)
        /\ Len(res.convertedDate.v) \in {20, 25}

\* DateTime.fromObject was called with a unit that is NaN, for which it
\* throws
CollaboratorThrew ==
    /\ InSeq("fromObject", calls)
    /\ \E u \in {loc.hour, loc.minute, loc.second} : u = NaN

\* C19: every invocation of the handler sends exactly one response and
\* lets no exception out; the response is the 500 "Internal server error"
\* exactly when a collaborator threw inside the pipeline; a missing or
\* wrong-typed field, an unrecognized timezone, an unparseable reference
\* instant, an unparseable date phrase, an unparseable time phrase and an
\* invalid resulting date are each answered with status 400.
C19_OneClassifiedResponse ==
    op = "handler" =>
        /\ res.sent = 1
        /\ ~res.thrown
        /\ res.status \in {200, 400, 405, 500}
        /\ res.status = 500 <=> (req.method = "POST" /\ CollaboratorThrew)
        /\ res.status = 500 =>
              /\ res.error = "Internal server error"
              /\ res.convertedDate.t = "undefined"
        /\ req.method = "POST" =>
              /\ (\E i \in 1..4 : FieldBad(BodyFields[i])) =>
                    res.status = 400
              /\ (PostWithStrings
                    /\ req.body.timeZone.v \notin RecognizedZones) =>
                    res.status = 400
              /\ ClientTimeBad => res.status = 400
              /\ (FieldsValid /\ Len(loc.dateResults) = 0) =>
                    res.status = 400
              /\ (FieldsValid /\ Len(loc.dateResults) > 0
                    /\ MatchesNeither(req.body.humanTime.v)) =>
                    res.status = 400
              /\ (InSeq("fromObject", calls) /\ ~CollaboratorThrew
                    /\ ~loc.dt.valid) =>
                    /\ res.status = 400
                    /\ res.error = "Invalid date generated"

\* humanTime "14" made DateTime.fromObject throw on the NaN minute, and the
\* handler answered 500 "Internal server error", once
C19_Witness ==
    /\ PostWithStrings
    /\ req.body.humanTime.v = TimeText.at_14
    /\ CollaboratorThrew
    /\ res.sent = 1
    /\ res.status = 500
    /\ res.error = "Internal server error"

\* C16: when the convertedDate of a success response is supplied as
\* clientCurrentTime of a new request with the same timeZone, the reference
\* instant nowZoned of the new request is valid and is the resolved
\* DateTime that was formatted: the same absolute instant, the same
\* wall-clock fields, the same offset and the same zone.
C16_RoundTrip ==
    (op = "resubmit") =>
        /\ req.body.clientCurrentTime = prev.res.convertedDate
        /\ InSeq("setZone", calls)
        /\ res.error # "Invalid clientCurrentTime format"
        /\ loc.nowZoned.valid
        /\ loc.nowZoned.ts = prev.dt.ts
        /\ loc.nowZoned.o = prev.dt.o
        /\ Fields(loc.nowZoned) = Fields(prev.dt)
        /\ loc.nowZoned.zone = prev.dt.zone

\* a resolved instant at -05:00 in America/Chicago (daylight time) came back
\* as the reference instant of the new request
C16_Witness ==
    /\ op = "resubmit"
    /\ req.body.timeZone = JSString(Str_America_Chicago)
    /\ prev.res.status = 200
    /\ prev.dt.o = -300
    /\ loc.nowZoned.ts = prev.dt.ts
    /\ loc.nowZoned.o = -300

\* the offset in minutes written at the end of the ISO text s ("Z" is 0)
WrittenOffset(s) ==
    IF At(s, Len(s)) = "Z" THEN 0
    ELSE (IF At(s, Len(s) - 5) = "-" THEN -1 ELSE 1)
            * (NumAt(s, Len(s) - 4, 2) * 60 + NumAt(s, Len(s) - 1, 2))

\* the wall-clock fields written in the ISO text s, YYYY-MM-DDTHH:MM:SS with
\* an optional .mmm
WrittenFields(s) ==
    [year |-> NumAt(s, 1, 4), month |-> NumAt(s, 6, 2),
     day |-> NumAt(s, 9, 2), hour |-> NumAt(s, 12, 2),
     minute |-> NumAt(s, 15, 2), second |-> NumAt(s, 18, 2),
     millisecond |-> IF At(s, 20) = "." THEN NumAt(s, 21, 3) ELSE 0]

\* the absolute instant the ISO text s denotes
WrittenInstant(s) ==
    MkTs(DaysFromCivil(WrittenFields(s).year, WrittenFields(s).month,
                       WrittenFields(s).day) * 86400
            + WrittenFields(s).hour * 3600 + WrittenFields(s).minute * 60
            + WrittenFields(s).second - WrittenOffset(s) * 60,
         WrittenFields(s).millisecond)

\* the handler converted a clientCurrentTime that carries "Z" or an offset
ReferenceConverted ==
    /\ PostWithStrings
    /\ InSeq("setZone", calls)
    /\ EndsWithOffset(req.body.clientCurrentTime.v)

\* the mock converted a clientCurrentTime that carries "Z" or an offset
MockReferenceConverted ==
    /\ op = "mock"
    /\ req.body.clientCurrentTime.t = "string"
    /\ EndsWithOffset(req.body.clientCurrentTime.v)

\* the same for the mock (src/test.js:15-16), whose zone is timeZone or the
\* default zone
MockReferenceConversion ==
    MockReferenceConverted =>
        /\ loc.nowZoned.valid
        /\ loc.nowZoned.ts = WrittenInstant(req.body.clientCurrentTime.v)
        /\ loc.nowZoned.zone = normalizeZone(mockZone(req.body.timeZone))
        /\ Fields(loc.nowZoned)
              = tsToObj(WrittenInstant(req.body.clientCurrentTime.v),
                        zoneOffset(loc.nowZoned.zone, loc.nowZoned.ts.sec))

\* C17: for a clientCurrentTime that carries "Z" or an explicit offset and a
\* recognized timeZone, the reference instant nowZoned, which the past
\* check compares with and whose toJSDate() chrono receives, is the
\* absolute instant the string denotes; its zone is timeZone and its
\* wall-clock fields and offset are those of that instant in timeZone, not
\* the fields written in the string.
C17_ReferenceConversion ==
    /\ MockReferenceConversion
    /\ ReferenceConverted =>
        /\ loc.nowZoned.valid
        /\ loc.nowZoned.ts = WrittenInstant(req.body.clientCurrentTime.v)
        /\ toJSDate(loc.nowZoned).ts
              = WrittenInstant(req.body.clientCurrentTime.v)
        /\ loc.nowZoned.zone = normalizeZone(req.body.timeZone.v)
        /\ loc.nowZoned.o
              = zoneOffset(loc.nowZoned.zone, loc.nowZoned.ts.sec)
        /\ Fields(loc.nowZoned)
              = tsToObj(WrittenInstant(req.body.clientCurrentTime.v),
                        loc.nowZoned.o)
        /\ (WrittenOffset(req.body.clientCurrentTime.v) # loc.nowZoned.o) =>
              Fields(loc.nowZoned)
                  # WrittenFields(req.body.clientCurrentTime.v)

\* "2024-01-15T10:00:00Z" for America/Chicago became 04:00 at -06:00
C17_Witness ==
    /\ ReferenceConverted
    /\ req.body.clientCurrentTime.v = ClientTime.jan15_10Z
    /\ req.body.timeZone.v = Str_America_Chicago
    /\ Fields(loc.nowZoned).hour = 4
    /\ Fields(loc.nowZoned).day = 15
    /\ loc.nowZoned.o = -360

\* a resolver built the DateTime from the six combined fields
FieldsCombined ==
    /\ op \in {"handler", "testParseDate", "mock"}
    /\ InSeq("fromObject", calls)
    /\ ~CollaboratorThrew
    /\ \A f \in {"year", "month", "day"} :
          get(loc.dateResults[1], f).t = "number"

\* C18: within one request the zone in which the reference instant is
\* expressed, the zone in which the six combined fields are interpreted
\* and the zone the response reports are one identifier, also when the
\* supplied timezone is missing or unrecognized and the default zone is
\* substituted; for the handler, the single-phrase resolver and the mock.
C18_SingleZone ==
    FieldsCombined =>
        /\ loc.built =
              fromObjectZ(objectOf(loc.dateResults[1], loc.hour, loc.minute,
                                   loc.second),
                          loc.nowZoned.zone, env.serverNow).dt
        /\ res.timeZone.t = "string" =>
              normalizeZone(res.timeZone.v) = loc.nowZoned.zone

\* the outcomes of request r when the process serves it alone: the
\* response it gets and the variables its call declares
ServedAlone(r, e) ==
    IF r.target = "handler" THEN handler(r, e) ELSE devServer(r, e)

\* both connections were served, their events interleaved
BothServed == \A c \in Connections : loc.phase[c] = "done"

\* C20: when two requests are served by one process, to the handler or to
\* the development server, their events interleaved in any order, the
\* response of each request is a response the request gets when it is
\* served alone, and no variable written while one request is served is a
\* variable of the other: the body variable of a connection holds what
\* that connection's own chunks wrote, and the variables a call declares
\* hold what the call for that connection's own request computed, untouched
\* before the call and after it.
C20_RequestIndependence ==
    \A c \in Connections :
        /\ loc.phase[c] = "new" =>
              /\ res[c] = NoResponse
              /\ loc.body[c] = <<>>
              /\ loc.frame[c] = NoLocals
        /\ loc.phase[c] = "reading" =>
              /\ res[c] = NoResponse
              /\ loc.body[c] = Joined(SubSeq(req[c].chunks, 1, loc.k[c]))
              /\ loc.frame[c] = NoLocals
        /\ loc.phase[c] = "done" =>
              /\ res[c].sent = 1
              /\ loc.body[c] = Joined(req[c].chunks)
              /\ \E out \in ServedAlone(req[c], env) :
                    /\ res[c] = out.res
                    /\ loc.frame[c] = out.loc

\* a call of the handler ran between the two chunks of a POST request to
\* the development server: each request got its own success response, in
\* its own zone, and the two calls hold different variables
C20_Witness ==
    /\ BothServed
    /\ calls = <<1, 1, 2, 1, 1>>
    /\ req[1].target = "dev"
    /\ req[2].target = "handler"
    /\ res[1].status = 200
    /\ res[2].status = 200
    /\ res[1].timeZone = JSString(Str_Asia_Tokyo)
    /\ res[2].timeZone = JSString(Str_America_Chicago)
    /\ res[1].humanDate = JSString(DateText.ten_am)
    /\ res[2].humanDate = JSString(DateText.today)
    /\ loc.frame[1] # NoLocals
    /\ loc.frame[2] # NoLocals
    /\ loc.frame[1] # loc.frame[2]

\* C21: for a request whose humanDate and humanTime are non-empty strings,
\* whose timeZone is recognized and whose clientCurrentTime is valid, the
\* mock of src/test.js returns what the handler answers: the same
\* convertedDate on success and the same error ("Could not parse the
\* date", "Could not parse the time", "Invalid date generated") on
\* failure, also for "tomorrow" and for dates before the reference instant.
C21_MockSimulatesHandler ==
    (op = "simulate" /\ prev.res.status \in {200, 400}) =>
        /\ ~res.thrown
        /\ res.sent = 1
        /\ res.error = prev.res.error
        /\ res.convertedDate = prev.res.convertedDate

\* the text holds no decimal digit
NoDigit(s) == \A i \in 1..Len(s) : ~IsDigit(s[i])

\* the error of the first failing check of a POST request, in the order
\* humanDate, humanTime, timeZone, clientCurrentTime presence, timezone
\* validity, reference-instant validity, date phrase, time phrase; "none"
\* when none of the eight fails
FirstDefect ==
    IF FieldBad("humanDate") THEN PresenceError.humanDate
    ELSE IF FieldBad("humanTime") THEN PresenceError.humanTime
    ELSE IF FieldBad("timeZone") THEN PresenceError.timeZone
    ELSE IF FieldBad("clientCurrentTime")
      THEN PresenceError.clientCurrentTime
    ELSE IF req.body.timeZone.v \notin RecognizedZones
      THEN "Invalid timezone"
    ELSE IF ClientTimeBad THEN "Invalid clientCurrentTime format"
    ELSE IF req.body.humanDate.v = DateText.christmas
      THEN "Could not parse the date"
    ELSE IF NoDigit(req.body.humanTime.v) THEN "Could not parse the time"
    ELSE "none"

\* C22: for a POST request the handler reports the first failing check in
\* the order humanDate, humanTime, timeZone, clientCurrentTime presence,
\* timezone validity, reference-instant validity, date-phrase parse,
\* time-phrase parse, resolved-instant validity; the time phrase is not
\* looked at while the date phrase is unparseable, and "Invalid date
\* generated" is reported only when every earlier check passed.
C22_ErrorPrecedence ==
    (op = "handler" /\ req.method = "POST") =>
        /\ FirstDefect # "none" =>
              /\ res.status = 400
              /\ res.error = FirstDefect
        /\ FirstDefect = "Could not parse the date" =>
              ~InSeq("timeParser", calls)
        /\ FirstDefect = "none" =>
              /\ InSeq("fromObject", calls)
              /\ res.error \in {"", "Invalid date generated",
                                "Internal server error"}
              /\ res.error = "Invalid date generated" <=>
                    (~CollaboratorThrew /\ ~loc.dt.valid)
              /\ res.error = "" <=> res.status = 200
        /\ res.error = "Invalid date generated" => FirstDefect = "none"

\* "christmas" with "afternoon" and four valid-looking fields: the date
\* error was reported and the time phrase was not parsed
C22_Witness ==
    /\ PostWithStrings
    /\ req.body.humanDate.v = DateText.christmas
    /\ req.body.humanTime.v = TimeText.at_afternoon
    /\ req.body.timeZone.v = Str_Asia_Tokyo
    /\ req.body.clientCurrentTime.v = ClientTime.jan15_10Z
    /\ res.error = "Could not parse the date"
    /\ ~InSeq("timeParser", calls)

\* the handler resolved a request whose humanDate is "tomorrow" in some
\* letter case
TomorrowRequest ==
    /\ FieldsValid
    /\ toLowerCase(req.body.humanDate.v) = Str_tomorrow

\* the day number of the reference date in the target zone
ReferenceDay ==
    DaysFromCivil(Fields(loc.nowZoned).year, Fields(loc.nowZoned).month,
                  Fields(loc.nowZoned).day)

\* the bypass itself: chrono is not called, the candidate carries the date
\* of the reference instant plus one day with every field certain, and the
\* roll-forward rule does not fire
BypassTaken ==
    /\ ~InSeq("chrono.parse", calls)
    /\ Len(loc.dateResults) = 1
    /\ DaysFromCivil(get(loc.dateResults[1], "year").v,
                     get(loc.dateResults[1], "month").v,
                     get(loc.dateResults[1], "day").v) = ReferenceDay + 1
    /\ \A f \in {"year", "month", "day"} : isCertain(loc.dateResults[1], f)
    /\ loc.rolls = 0

\* C23: when humanDate is "tomorrow" in any letter case the date-phrase
\* parser is not called, the candidate's year, month and day are those of
\* the reference instant in the target zone plus one calendar day, all
\* certain, the roll-forward rule never fires, and every result is dated
\* exactly one calendar day after the reference date, whatever humanTime
\* is.
C23_TomorrowBypass ==
    TomorrowRequest =>
        /\ BypassTaken
        /\ res.status = 200 =>
              DaysFromCivil(Fields(loc.dt).year, Fields(loc.dt).month,
                            Fields(loc.dt).day) = ReferenceDay + 1

\* the substring of s that starts at i and consists of hl digits, :MM if mm,
\* n white-space characters and "am" or "pm" in any letter case
Is12HourAt(s, i, hl, mm, n) ==
    /\ \A q \in i..(i + hl - 1) : IsDigit(At(s, q))
    /\ mm => /\ At(s, i + hl) = ":"
             /\ IsDigit(At(s, i + hl + 1))
             /\ IsDigit(At(s, i + hl + 2))
    /\ \A q \in 1..n : IsSpace(At(s, i + hl + (IF mm THEN 3 ELSE 0) + q - 1))
    /\ At(s, i + hl + (IF mm THEN 3 ELSE 0) + n) \in {"a", "A", "p", "P"}
    /\ At(s, i + hl + (IF mm THEN 3 ELSE 0) + n + 1) \in {"m", "M"}

\* the ways in which some substring of s matches the 12-hour pattern
Matches12(s) ==
    {w \in [i : 1..Len(s), hl : 1..2, mm : BOOLEAN, n : 0..Len(s)] :
        Is12HourAt(s, w.i, w.hl, w.mm, w.n)}

\* the hour and minute the 12-hour match w of s stands for
Hour12(s, w) ==
    IF At(s, w.i + w.hl + (IF w.mm THEN 3 ELSE 0) + w.n) \in {"p", "P"}
      THEN IF DigitsVal(SubSeq(s, w.i, w.i + w.hl - 1)) = 12 THEN 12
           ELSE DigitsVal(SubSeq(s, w.i, w.i + w.hl - 1)) + 12
    ELSE IF DigitsVal(SubSeq(s, w.i, w.i + w.hl - 1)) = 12 THEN 0
    ELSE DigitsVal(SubSeq(s, w.i, w.i + w.hl - 1))
Minute12(s, w) ==
    IF w.mm THEN DigitsVal(SubSeq(s, w.i + w.hl + 1, w.i + w.hl + 2)) ELSE 0

\* the position of the first decimal digit of s
FirstDigit(s) ==
    CHOOSE p \in 1..Len(s) :
        IsDigit(s[p]) /\ \A q \in 1..(p - 1) : ~IsDigit(s[q])

\* the hour and minute of the first run of one or two digits of s, read as
\* a 24-hour time: the minute is NaN unless :MM follows the run
Hour24(s, p) ==
    IF IsDigit(At(s, p + 1)) THEN DigitsVal(SubSeq(s, p, p + 1))
    ELSE DigitVal(s[p])
Minute24(s, e) ==
    IF At(s, e) = ":" /\ IsDigit(At(s, e + 1)) /\ IsDigit(At(s, e + 2))
      THEN JSNumber(DigitsVal(SubSeq(s, e + 1, e + 2)))
    ELSE NaN

\* C24: the time patterns are searched anywhere in humanTime: when some
\* substring matches the 12-hour pattern the result is the 12-hour reading
\* of the leftmost such substring; otherwise the first run of one or two
\* digits is taken as a 24-hour hour; "Could not parse the time" is
\* produced if and only if humanTime holds no decimal digit, and text or
\* digits around the match are ignored.
C24_UnanchoredSearch ==
    (op = "parseTime") =>
        /\ res.error = "Could not parse the time" <=> NoDigit(req.humanTime)
        /\ NoDigit(req.humanTime) => res.status = 400
        /\ Matches12(req.humanTime) # {} =>
              /\ res.error = ""
              /\ \E w \in Matches12(req.humanTime) :
                    /\ \A v \in Matches12(req.humanTime) : w.i <= v.i
                    /\ loc.hour = JSNumber(Hour12(req.humanTime, w))
                    /\ loc.minute = JSNumber(Minute12(req.humanTime, w))
        /\ (Matches12(req.humanTime) = {} /\ ~NoDigit(req.humanTime)) =>
              /\ res.error = ""
              /\ loc.hour = JSNumber(Hour24(req.humanTime,
                                            FirstDigit(req.humanTime)))
              /\ loc.minute =
                    Minute24(req.humanTime,
                             FirstDigit(req.humanTime)
                               + (IF IsDigit(At(req.humanTime,
                                                FirstDigit(req.humanTime) + 1))
                                  THEN 2 ELSE 1))

\* "x2pm" was parsed to 14:00, the leading text ignored; "1212" to hour 12,
\* the digits after the first two ignored
C24_Witness ==
    /\ op = "parseTime"
    /\ res.error = ""
    /\ \/ (req.humanTime = <<"x", "2", "p", "m">>
            /\ loc.hour = JSNumber(14) /\ loc.minute = JSNumber(0))
       \/ (req.humanTime = <<"1", "2", "1", "2">>
            /\ loc.hour = JSNumber(12) /\ loc.minute = NaN)

====
